---------------------------- MODULE Spec2Model ----------------------------
(***************************************************************************)
(* Movie-catalogue pipeline: the chunked cleaning functions of             *)
(* app/filter_movies.py and the batch loader of app/insertion.py.          *)
(*                                                                         *)
(* A file cell is text.  A pandas number (float64) is a tuple              *)
(* <<whole, tenth>>, NaN / NaT / None is the empty tuple.                  *)
(***************************************************************************)
EXTENDS Integers, Sequences, FiniteSets, TLC

VARIABLES
    \* clean_ratings
    r_pc, r_keep, r_read, r_latest_ts, r_first_chunk, r_stats, r_file,
    \* clean_movies
    m_pc, m_min_votes, m_read, m_seen_ids, m_first_chunk, m_total_in, m_total_keep,
    m_drop_counters, m_file,
    \* clean_credits, clean_links, clean_keywords: one call
    t_fn, t_keep_null_tmdb, t_in, t_out, t_done, t_header,
    \* insert_movies: one inserter run against the movies collection
    l_pc, l_batch_size, l_coll, l_coll0, l_batch, l_stats, l_total_rows, l_calls,
    l_built,
    \* insertion.main: the load phase, run after run on one store
    g_pc, g_run, g_reset, g_allow_null_tmdb, g_batch_size, g_files, g_db, g_oid,
    g_report, g_db1, g_indexes,
    \* a JSON column of a frame: cleaned, written, read again
    j_pc, j_cells, j_parsed, j_dumped, j_reparsed, j_loaded,
    \* clean_movies or clean_ratings called twice in one process on one input file
    p_pc, p_fn, p_keep, p_min_votes, p_input, p_run, p_pos, p_seen_ids, p_latest_ts,
    p_first_chunk, p_file, p_out1

r_vars == <<r_pc, r_keep, r_read, r_latest_ts, r_first_chunk, r_stats, r_file>>

m_vars == <<m_pc, m_min_votes, m_read, m_seen_ids, m_first_chunk, m_total_in,
            m_total_keep, m_drop_counters, m_file>>

t_vars == <<t_fn, t_keep_null_tmdb, t_in, t_out, t_done, t_header>>

l_vars == <<l_pc, l_batch_size, l_coll, l_coll0, l_batch, l_stats, l_total_rows, l_calls, l_built>>

g_vars == <<g_pc, g_run, g_reset, g_allow_null_tmdb, g_batch_size, g_files, g_db, g_oid,
            g_report, g_db1, g_indexes>>

j_vars == <<j_pc, j_cells, j_parsed, j_dumped, j_reparsed, j_loaded>>

p_vars == <<p_pc, p_fn, p_keep, p_min_votes, p_input, p_run, p_pos, p_seen_ids,
            p_latest_ts, p_first_chunk, p_file, p_out1>>

vars == <<r_vars, m_vars, t_vars, l_vars, g_vars, j_vars, p_vars>>

\* what a run of one function leaves alone
not_r == <<m_vars, t_vars, l_vars, g_vars, j_vars, p_vars>>

not_m == <<r_vars, t_vars, l_vars, g_vars, j_vars, p_vars>>

not_t == <<r_vars, m_vars, l_vars, g_vars, j_vars, p_vars>>

not_l == <<r_vars, m_vars, t_vars, g_vars, j_vars, p_vars>>

not_g == <<r_vars, m_vars, t_vars, l_vars, j_vars, p_vars>>

not_j == <<r_vars, m_vars, t_vars, l_vars, g_vars, p_vars>>

not_p == <<r_vars, m_vars, t_vars, l_vars, g_vars, j_vars>>

---------------------------------------------------------------------------
(* Bounds of the model *)

\* rows per chunk (CHUNK_SIZE = 100_000 in the source, scaled down)
CHUNK_SIZE == 2
\* rows of a ratings input file
MaxRatingRows == 3
\* rows of a movies input file
MaxMovieRows == 3
\* rows of a credits, links or keywords input file
MaxTableRows == 3
\* rows of the file an inserter reads
MaxLoadRows == 3
\* the greatest configured batch_size
MaxBatchSize == 2
\* runs of the load phase on one store
MaxRuns == 2
\* the cells of a JSON column
MaxCells == 2
\* rows of the input file of a function called twice
MaxRerunRows == 3

---------------------------------------------------------------------------
(* Numbers and text *)

NaN == <<>>

F(w, t) == <<w, t>>

\* what float(text) gives for the numeric texts of the model
NumericText ==
    [ t \in {"-5", "-1", "0", "1", "1.0", "1.5", "2", "3", "5", "7", "9", "10",
             "11", "12", "20", "90", "900"} |->
        CASE t = "-5"  -> F(-5, 0)
          [] t = "-1"  -> F(-1, 0)
          [] t = "0"   -> F(0, 0)
          [] t = "1"   -> F(1, 0)
          [] t = "1.0" -> F(1, 0)
          [] t = "1.5" -> F(1, 5)
          [] t = "2"   -> F(2, 0)
          [] t = "3"   -> F(3, 0)
          [] t = "5"   -> F(5, 0)
          [] t = "7"   -> F(7, 0)
          [] t = "9"   -> F(9, 0)
          [] t = "10"  -> F(10, 0)
          [] t = "11"  -> F(11, 0)
          [] t = "12"  -> F(12, 0)
          [] t = "20"  -> F(20, 0)
          [] t = "90"  -> F(90, 0)
          [] t = "900" -> F(900, 0) ]

\* pd.to_numeric(col, errors="coerce")
to_numeric(text) == IF text \in DOMAIN NumericText THEN NumericText[text] ELSE NaN

notna(v) == v # NaN

isna(v) == v = NaN

\* Series.astype(int): truncation of the float
astype_int(v) == v[1]

\* a <= b on floats
fle(a, b) == a[1] < b[1] \/ (a[1] = b[1] /\ a[2] <= b[2])

\* a range test that lets every number through
between_unbounded(v, lo, hi) == notna(v)

\* Series.between(lo, hi); NaN is never between
between(v, lo, hi) == notna(v) /\ fle(F(lo, 0), v) /\ fle(v, F(hi, 0))

---------------------------------------------------------------------------
(* Sequence helpers: DataFrame row operations *)

Range(s) == {s[i] : i \in 1..Len(s)}

SeqsUpTo(S, n) == UNION {[1..k -> S] : k \in 0..n}

\* a < b on tuples of integers of one length, column by column
RECURSIVE LexLess(_, _)
LexLess(a, b) ==
    IF a = <<>> THEN FALSE
    ELSE Head(a) < Head(b) \/ (Head(a) = Head(b) /\ LexLess(Tail(a), Tail(b)))

\* the index i placed into the sorted index list ord, after every index whose key
\* is not greater (equal keys keep their order)
RECURSIVE InsertSorted(_, _, _)
InsertSorted(ord, i, keys) ==
    IF ord = <<>> THEN <<i>>
    ELSE IF LexLess(keys[i], keys[Head(ord)]) THEN <<i>> \o ord
    ELSE <<Head(ord)>> \o InsertSorted(Tail(ord), i, keys)

\* the row indices in the order of a stable sort by keys
RECURSIVE SortOrder(_, _)
SortOrder(n, keys) ==
    IF n = 0 THEN <<>> ELSE InsertSorted(SortOrder(n - 1, keys), n, keys)

\* DataFrame.sort_values(columns): keys[i] is the tuple of sort columns of row i
sort_values(df, keys) ==
    LET ord == SortOrder(Len(df), keys) IN [i \in 1..Len(df) |-> df[ord[i]]]

\* the rows of df whose index is in idx, in order
RECURSIVE TakeRows(_, _, _)
TakeRows(df, idx, i) ==
    IF i > Len(df) THEN <<>>
    ELSE (IF i \in idx THEN <<df[i]>> ELSE <<>>) \o TakeRows(df, idx, i + 1)

\* DataFrame.drop_duplicates(subset, keep): keys[i] is the subset tuple of row i
drop_duplicates(df, keys, keep) ==
    LET first == {i \in 1..Len(df) : \A j \in 1..(i - 1) : keys[j] # keys[i]}
        last  == {i \in 1..Len(df) : \A j \in (i + 1)..Len(df) : keys[j] # keys[i]}
    IN TakeRows(df, IF keep = "last" THEN last ELSE first, 1)

---------------------------------------------------------------------------
(* JSON-like cells: parse_json_safe and json_dump_if *)

\* a list item or an object: {"id": ..., "name": ...}
P(i, n) == [id |-> i, name |-> n]

\* json.loads on the strict (double-quoted) JSON texts of the model; a list is
\* tagged "list", an object "dict" (its value held as a one-item tuple)
JsonText ==
    [ x \in {"[]",
              "[{\"id\": 1, \"name\": \"a\"}, {\"id\": 2, \"name\": \"b\"}, {\"id\": 3, \"name\": \"c\"}]",
              "[{\"id\": 4, \"name\": \"d\"}, {\"id\": 5, \"name\": \"e\"}, {\"id\": 6, \"name\": \"f\"}]",
              "[{\"id\": 4, \"name\": \"d\"}, {\"id\": 5, \"name\": \"e\"}, {\"id\": 6, \"name\": \"f\"}, {\"id\": 7, \"name\": \"g\"}]",
              "[{\"id\": 1, \"name\": \" Foo \"}]",
              "[{\"id\": 1, \"name\": \"foo\"}]",
              "[{\"id\": 2, \"name\": \"\"}]",
              "[{\"id\": 8, \"name\": \"O'Brien\"}]",
              "{\"id\": 1, \"name\": \"a\"}"} |->
        CASE x = "[]" ->
               [t |-> "list", v |-> <<>>]
          [] x = "[{\"id\": 1, \"name\": \"a\"}, {\"id\": 2, \"name\": \"b\"}, {\"id\": 3, \"name\": \"c\"}]" ->
               [t |-> "list", v |-> <<P(1, "a"), P(2, "b"), P(3, "c")>>]
          [] x = "[{\"id\": 4, \"name\": \"d\"}, {\"id\": 5, \"name\": \"e\"}, {\"id\": 6, \"name\": \"f\"}]" ->
               [t |-> "list", v |-> <<P(4, "d"), P(5, "e"), P(6, "f")>>]
          [] x = "[{\"id\": 4, \"name\": \"d\"}, {\"id\": 5, \"name\": \"e\"}, {\"id\": 6, \"name\": \"f\"}, {\"id\": 7, \"name\": \"g\"}]" ->
               [t |-> "list", v |-> <<P(4, "d"), P(5, "e"), P(6, "f"), P(7, "g")>>]
          [] x = "[{\"id\": 1, \"name\": \" Foo \"}]" ->
               [t |-> "list", v |-> <<P(1, " Foo ")>>]
          [] x = "[{\"id\": 1, \"name\": \"foo\"}]" ->
               [t |-> "list", v |-> <<P(1, "foo")>>]
          [] x = "[{\"id\": 2, \"name\": \"\"}]" ->
               [t |-> "list", v |-> <<P(2, "")>>]
          [] x = "[{\"id\": 8, \"name\": \"O'Brien\"}]" ->
               [t |-> "list", v |-> <<P(8, "O'Brien")>>]
          [] x = "{\"id\": 1, \"name\": \"a\"}" ->
               [t |-> "dict", v |-> <<P(1, "a")>>] ]

\* the cell texts of the raw files
CAST3_SQ == "[{'id': 1, 'name': 'a'}, {'id': 2, 'name': 'b'}, {'id': 3, 'name': 'c'}]"

CREW3 == "[{\"id\": 4, \"name\": \"d\"}, {\"id\": 5, \"name\": \"e\"}, {\"id\": 6, \"name\": \"f\"}]"

CREW4 == "[{\"id\": 4, \"name\": \"d\"}, {\"id\": 5, \"name\": \"e\"}, {\"id\": 6, \"name\": \"f\"}, {\"id\": 7, \"name\": \"g\"}]"

KW_SQ == "[{'id': 1, 'name': ' Foo '}]"

KW_NONAME == "[{\"id\": 2, \"name\": \"\"}]"

DICT1 == "{\"id\": 1, \"name\": \"a\"}"

\* a list whose name holds an apostrophe, as JSON and as Python writes it (the
\* string that holds a single quote is delimited by double quotes)
APOS_DQ == "[{\"id\": 8, \"name\": \"O'Brien\"}]"

APOS_SQ == "[{'id': 8, 'name': \"O'Brien\"}]"

\* str.replace("'", '"')
replace_quotes(s) ==
    CASE s = CAST3_SQ -> "[{\"id\": 1, \"name\": \"a\"}, {\"id\": 2, \"name\": \"b\"}, {\"id\": 3, \"name\": \"c\"}]"
      [] s = KW_SQ -> "[{\"id\": 1, \"name\": \" Foo \"}]"
      [] s = APOS_SQ -> "[{\"id\": 8, \"name\": \"O\"Brien\"}]"
      [] s = APOS_DQ -> "[{\"id\": 8, \"name\": \"O\"Brien\"}]"
      [] OTHER -> s

EmptyList == [t |-> "list", v |-> <<>>]

\* parse_json_safe: strict JSON first, then with single quotes replaced, else [];
\* an empty cell is read as NaN
parse_json_safe(value) ==
    IF value = "" \/ value = "null" THEN EmptyList
    ELSE IF value \in DOMAIN JsonText THEN JsonText[value]
    ELSE IF replace_quotes(value) \in DOMAIN JsonText THEN JsonText[replace_quotes(value)]
    ELSE EmptyList

\* json.dumps(obj, ensure_ascii=False) for a list or dict
json_dump_if(obj) == CHOOSE x \in DOMAIN JsonText : JsonText[x] = obj

---------------------------------------------------------------------------
(* clean_ratings: chunked, dedupe per (userId, movieId) *)

NaT == <<>>

\* nanoseconds per second: Timestamp.value is in ns
NS_PER_S == 1000000000

\* pd.to_datetime(col, unit="s", errors="coerce"), as its .value in ns
to_datetime_s(text) ==
    IF notna(to_numeric(text)) THEN <<astype_int(to_numeric(text)) * NS_PER_S>> ELSE NaT

\* the rows of a raw ratings file
RawRatingRows ==
    [userId : {"1"}, movieId : {"10", "20"}, rating : {"3", "5"},
     timestamp : {"-1", "1", "2"}]
    \cup { [userId |-> "x", movieId |-> "10", rating |-> "5", timestamp |-> "1"],
           [userId |-> "1", movieId |-> "10", rating |-> "11", timestamp |-> "1"],
           [userId |-> "1", movieId |-> "10", rating |-> "x", timestamp |-> "1"],
           [userId |-> "1", movieId |-> "10", rating |-> "5", timestamp |-> "x"] }

\* a row survives the type and range filters
rating_row_valid(row) ==
    /\ between(to_numeric(row.rating), 0, 10)
    /\ notna(to_datetime_s(row.timestamp))
    /\ notna(to_numeric(row.userId))
    /\ notna(to_numeric(row.movieId))

\* the typed row
rating_row_typed(row) ==
    [userId    |-> astype_int(to_numeric(row.userId)),
     movieId   |-> astype_int(to_numeric(row.movieId)),
     rating    |-> to_numeric(row.rating),
     timestamp |-> to_datetime_s(row.timestamp)[1]]

\* numeric ids, rating in [0,10], timestamp parsed, ids cast to int
RECURSIVE ratings_normalize(_)
ratings_normalize(chunk) ==
    IF chunk = <<>> THEN <<>>
    ELSE (IF rating_row_valid(Head(chunk)) THEN <<rating_row_typed(Head(chunk))>>
          ELSE <<>>) \o ratings_normalize(Tail(chunk))

pair_key(r) == <<r.userId, r.movieId>>

\* within-chunk dedupe: sort by (userId, movieId, timestamp), keep first or last
ratings_dedupe_chunk(df, keep) ==
    LET sorted == sort_values(df, [i \in 1..Len(df) |->
                      <<df[i].userId, df[i].movieId, df[i].timestamp>>])
    IN drop_duplicates(sorted, [i \in 1..Len(sorted) |-> pair_key(sorted[i])], keep)

\* dict[key] = value
dict_set(d, key, value) ==
    [k \in DOMAIN d \cup {key} |-> IF k = key THEN value ELSE d[k]]

\* cross-chunk dedupe using the latest_ts index; latest_ts is a defaultdict(int),
\* so reading a missing key under keep="last" stores 0 for it
RECURSIVE ratings_cross_chunk(_, _, _)
ratings_cross_chunk(df, keep, latest) ==
    IF df = <<>> THEN [rows |-> <<>>, latest_ts |-> latest]
    ELSE LET r    == Head(df)
             key  == pair_key(r)
             ts   == r.timestamp
             seen == key \in DOMAIN latest
             cur  == IF seen THEN latest[key] ELSE 0
             kept == IF keep = "last" THEN ts >= cur ELSE ~seen
             next == IF keep = "last"
                     THEN dict_set(latest, key, IF ts >= cur THEN ts ELSE cur)
                     ELSE IF seen THEN latest ELSE dict_set(latest, key, ts)
             rest == ratings_cross_chunk(Tail(df), keep, next)
         IN [rows |-> (IF kept THEN <<r>> ELSE <<>>) \o rest.rows,
             latest_ts |-> rest.latest_ts]

\* an iteration that deduplicates whatever the policy
ratings_chunk_always_dedupe(chunk, keep, latest) ==
    ratings_cross_chunk(ratings_dedupe_chunk(ratings_normalize(chunk), "last"), "last", latest)

\* one iteration of the chunk loop: the rows written and the new index
ratings_chunk(chunk, keep, latest) ==
    LET df == ratings_normalize(chunk)
    IN IF keep = "all" THEN [rows |-> df, latest_ts |-> latest]
       ELSE ratings_cross_chunk(ratings_dedupe_chunk(df, keep), keep, latest)

\* a write that opens the file with mode "w" and a header every time
to_csv_truncating(file, df, first_chunk) == [header |-> 1, rows |-> df]

\* df.to_csv(path, header=first_chunk, mode="w" if first_chunk else "a")
to_csv(file, df, first_chunk) ==
    IF first_chunk THEN [header |-> 1, rows |-> df]
    ELSE [header |-> file.header, rows |-> file.rows \o df]

NoFile == [header |-> 0, rows |-> <<>>]

RatingsInit ==
    /\ r_pc = "read"
    /\ r_keep \in {"first", "last", "all"}
    /\ r_read = <<>>
    /\ r_latest_ts = <<>>
    /\ r_first_chunk = TRUE
    /\ r_stats = [in_rows |-> 0, out_rows |-> 0]
    /\ r_file = NoFile

RatingsIdle ==
    /\ r_pc = "off"
    /\ r_keep = "all"
    /\ r_read = <<>>
    /\ r_latest_ts = <<>>
    /\ r_first_chunk = TRUE
    /\ r_stats = [in_rows |-> 0, out_rows |-> 0]
    /\ r_file = NoFile

\* the body of the loop over pd.read_csv(path_in, chunksize=CHUNK_SIZE): a chunk
\* shorter than CHUNK_SIZE is the last one, and only a file holding nothing but its
\* header gives an empty chunk
clean_ratings_chunk(chunk) ==
    /\ r_pc = "read"
    /\ Len(r_read) + Len(chunk) <= MaxRatingRows
    /\ chunk = <<>> => r_first_chunk
    /\ LET res == ratings_chunk(chunk, r_keep, r_latest_ts)
       IN /\ r_latest_ts' = res.latest_ts
          /\ r_file' = to_csv(r_file, res.rows, r_first_chunk)
          /\ r_stats' = [in_rows  |-> r_stats.in_rows + Len(chunk),
                         out_rows |-> r_stats.out_rows + Len(res.rows)]
    /\ r_read' = r_read \o chunk
    /\ r_first_chunk' = FALSE
    /\ r_pc' = IF Len(chunk) < CHUNK_SIZE THEN "done" ELSE "read"
    /\ UNCHANGED <<r_keep, not_r>>

\* the input ends on a chunk boundary
clean_ratings_end ==
    /\ r_pc = "read"
    /\ ~r_first_chunk
    /\ r_pc' = "done"
    /\ UNCHANGED <<r_keep, r_read, r_latest_ts, r_first_chunk, r_stats, r_file, not_r>>

\* the chunks read_csv can give next: up to CHUNK_SIZE of the rows left
RatingChunks ==
    IF r_pc = "read"
    THEN SeqsUpTo(RawRatingRows, IF MaxRatingRows - Len(r_read) < CHUNK_SIZE
                                 THEN MaxRatingRows - Len(r_read) ELSE CHUNK_SIZE)
    ELSE {}

RatingsNext ==
    \/ \E chunk \in RatingChunks : clean_ratings_chunk(chunk)
    \/ clean_ratings_end

\* the rows written to the ratings output so far
r_out == r_file.rows

\* the indices of the valid input rows of a pair, over the whole input read
ValidRowsOf(key) ==
    {i \in 1..Len(r_read) :
        rating_row_valid(r_read[i]) /\ pair_key(rating_row_typed(r_read[i])) = key}

\* the chronologically earliest valid row of a pair, the earlier-seen one on a tie
EarliestRowOf(key) ==
    LET idx == ValidRowsOf(key)
        i0  == CHOOSE i \in idx : \A j \in idx :
                   LET ti == rating_row_typed(r_read[i]).timestamp
                       tj == rating_row_typed(r_read[j]).timestamp
                   IN ti < tj \/ (ti = tj /\ i <= j)
    IN rating_row_typed(r_read[i0])

\* C1: with retention policy 'last' or 'first' the ratings output holds at most one
\* row per (userId, movieId) pair, also when the rows of a pair arrive in
\* different chunks.
C1_OneRowPerPair ==
    r_keep \in {"first", "last"} =>
        \A i, j \in 1..Len(r_out) : pair_key(r_out[i]) = pair_key(r_out[j]) => i = j

\* C5: with retention policy 'first', at the end of the run the row kept for a
\* pair is the chronologically earliest valid row of that pair over the whole
\* input, whatever the chunk it arrives in (ties going to the earlier-seen row).
C5_FirstKeepsEarliest ==
    (r_keep = "first" /\ r_pc = "done") =>
        \A i \in 1..Len(r_out) : r_out[i] = EarliestRowOf(pair_key(r_out[i]))

---------------------------------------------------------------------------
(* clean_movies: chunked, unique numeric id, range and date filters, counters *)

MAX_RUNTIME == 873

\* --year-min and --year-max defaults
YEAR_MIN == 1888

YEAR_MAX == 2100

\* pd.to_datetime(col, errors="coerce").dt.year
to_datetime_year(text) ==
    CASE text = "2000-01-01" -> <<2000>>
      [] text = "1800-01-01" -> <<1800>>
      [] OTHER -> NaT

GoodMovie(id) ==
    [id |-> id, title |-> "T", runtime |-> "90", vote_average |-> "7",
     vote_count |-> "10", release_date |-> "2000-01-01"]

\* the rows of a raw movies file: a good row per id and rows with one defect each
\* (an empty title cell is read as NaN)
RawMovieRows ==
    { GoodMovie("1"), GoodMovie("2"), GoodMovie("x"), GoodMovie("1.5") }
    \cup { [GoodMovie("1") EXCEPT !.title = ""] }
    \cup { [GoodMovie("1") EXCEPT !.runtime = r] : r \in {"900", "-5", "x"} }
    \cup { [GoodMovie("1") EXCEPT !.vote_average = v] : v \in {"11", "0", "x"} }
    \cup { [GoodMovie("1") EXCEPT !.vote_count = "1"] }
    \cup { [GoodMovie("1") EXCEPT !.release_date = d] : d \in {"bad", "1800-01-01"} }

\* Series.fillna(0)
fillna0(v) == IF isna(v) THEN F(0, 0) ELSE v

\* the rows of df at the indices satisfying no drop test
Rows(df, idx) == TakeRows(df, idx, 1)

NoDrops ==
    [movies_id_non_numeric |-> 0, movies_title_null |-> 0, movies_dupes_intra |-> 0,
     movies_dupes_inter |-> 0, movies_vote_average_out_of_range |-> 0,
     movies_low_votes |-> 0, movies_release_date_nat |-> 0,
     movies_year_out_of_bounds |-> 0]

\* runtime filters: a negative runtime becomes NA, a runtime over MAX_RUNTIME drops
\* the row (no counter)
runtime_filter(df) ==
    LET neg == [i \in 1..Len(df) |->
                   IF notna(df[i].runtime) /\ df[i].runtime[1] < 0
                   THEN [df[i] EXCEPT !.runtime = NaN] ELSE df[i]]
    IN Rows(neg, {i \in 1..Len(neg) :
                     ~(notna(neg[i].runtime) /\ ~fle(neg[i].runtime, F(MAX_RUNTIME, 0)))})

\* force numeric ids
movies_numeric_ids(df) ==
    LET kept == Rows(df, {i \in 1..Len(df) : notna(to_numeric(df[i].id))})
    IN [i \in 1..Len(kept) |->
           [kept[i] EXCEPT !.id = astype_int(to_numeric(kept[i].id))]]

\* title required
movies_title(df) == Rows(df, {i \in 1..Len(df) : df[i].title # ""})

\* drop dupes within the chunk
movies_dupes_intra(df) ==
    drop_duplicates(df, [i \in 1..Len(df) |-> df[i].id], "first")

\* drop dupes against the ids of the earlier chunks
movies_dupes_inter(df, seen_ids) ==
    Rows(df, {i \in 1..Len(df) : df[i].id \notin seen_ids})

\* numeric casts
movies_casts(df) ==
    [i \in 1..Len(df) |->
        [df[i] EXCEPT !.runtime = to_numeric(@),
                      !.vote_average = to_numeric(@),
                      !.vote_count = to_numeric(@)]]

\* vote_average within [0,10] or NaN
movies_vote_average(df) ==
    Rows(df, {i \in 1..Len(df) :
                 between(df[i].vote_average, 0, 10) \/ isna(df[i].vote_average)})

low_votes(r, min_votes) ==
    \/ ~fle(F(min_votes, 0), fillna0(r.vote_count))
    \/ fillna0(r.vote_average) = F(0, 0)

\* low-signal titles, only when min_votes > 0
movies_low_votes(df, min_votes) ==
    IF min_votes > 0
    THEN Rows(df, {i \in 1..Len(df) : ~low_votes(df[i], min_votes)})
    ELSE df

\* release_date parsed, NaT dropped
movies_dates(df) ==
    LET parsed == [i \in 1..Len(df) |->
                      [df[i] EXCEPT !.release_date = to_datetime_year(@)]]
    IN Rows(parsed, {i \in 1..Len(parsed) : notna(parsed[i].release_date)})

\* year within [year_min, year_max]
movies_years(df) ==
    Rows(df, {i \in 1..Len(df) :
                 YEAR_MIN <= df[i].release_date[1] /\ df[i].release_date[1] <= YEAR_MAX})

\* one iteration of the chunk loop: the rows written, the new key set and what
\* each drop counter gains
movies_chunk(chunk, seen_ids, min_votes) ==
    LET d1 == movies_numeric_ids(chunk)
        d2 == movies_title(d1)
        d3 == movies_dupes_intra(d2)
        d4 == movies_dupes_inter(d3, seen_ids)
        d5 == runtime_filter(movies_casts(d4))
        d6 == movies_vote_average(d5)
        d7 == movies_low_votes(d6, min_votes)
        d8 == movies_dates(d7)
        d9 == movies_years(d8)
    IN [rows |-> d9,
        seen_ids |-> seen_ids \cup {d4[i].id : i \in 1..Len(d4)},
        drops |->
          [movies_id_non_numeric |-> Len(chunk) - Len(d1),
           movies_title_null |-> Len(d1) - Len(d2),
           movies_dupes_intra |-> Len(d2) - Len(d3),
           movies_dupes_inter |-> Len(d3) - Len(d4),
           movies_vote_average_out_of_range |-> Len(d5) - Len(d6),
           movies_low_votes |-> Len(d6) - Len(d7),
           movies_release_date_nat |-> Len(d7) - Len(d8),
           movies_year_out_of_bounds |-> Len(d8) - Len(d9)]]

MoviesInit ==
    /\ m_pc = "read"
    /\ m_min_votes \in {0, 5}
    /\ m_read = <<>>
    /\ m_seen_ids = {}
    /\ m_first_chunk = TRUE
    /\ m_total_in = 0
    /\ m_total_keep = 0
    /\ m_drop_counters = NoDrops
    /\ m_file = NoFile

MoviesIdle ==
    /\ m_pc = "off"
    /\ m_min_votes = 0
    /\ m_read = <<>>
    /\ m_seen_ids = {}
    /\ m_first_chunk = TRUE
    /\ m_total_in = 0
    /\ m_total_keep = 0
    /\ m_drop_counters = NoDrops
    /\ m_file = NoFile

\* the body of the loop over pd.read_csv(path_in, chunksize=CHUNK_SIZE)
clean_movies_chunk(chunk) ==
    /\ m_pc = "read"
    /\ Len(m_read) + Len(chunk) <= MaxMovieRows
    /\ chunk = <<>> => m_first_chunk
    /\ LET res == movies_chunk(chunk, m_seen_ids, m_min_votes)
       IN /\ m_seen_ids' = res.seen_ids
          /\ m_drop_counters' =
                [k \in DOMAIN m_drop_counters |-> m_drop_counters[k] + res.drops[k]]
          /\ m_file' = to_csv(m_file, res.rows, m_first_chunk)
          /\ m_total_keep' = m_total_keep + Len(res.rows)
    /\ m_total_in' = m_total_in + Len(chunk)
    /\ m_read' = m_read \o chunk
    /\ m_first_chunk' = FALSE
    /\ m_pc' = IF Len(chunk) < CHUNK_SIZE THEN "done" ELSE "read"
    /\ UNCHANGED <<m_min_votes, not_m>>

\* the input ends on a chunk boundary
clean_movies_end ==
    /\ m_pc = "read"
    /\ ~m_first_chunk
    /\ m_pc' = "done"
    /\ UNCHANGED <<m_min_votes, m_read, m_seen_ids, m_first_chunk, m_total_in,
                   m_total_keep, m_drop_counters, m_file, not_m>>

\* the chunks read_csv can give next: up to CHUNK_SIZE of the rows left
MovieChunks ==
    IF m_pc = "read"
    THEN SeqsUpTo(RawMovieRows, IF MaxMovieRows - Len(m_read) < CHUNK_SIZE
                                THEN MaxMovieRows - Len(m_read) ELSE CHUNK_SIZE)
    ELSE {}

MoviesNext ==
    \/ \E chunk \in MovieChunks : clean_movies_chunk(chunk)
    \/ clean_movies_end

\* the rows written to the movies output so far
m_out == m_file.rows

RECURSIVE SumOver(_, _)
SumOver(f, keys) ==
    IF keys = {} THEN 0
    ELSE LET k == CHOOSE x \in keys : TRUE IN f[k] + SumOver(f, keys \ {k})

\* C10: every row clean_movies reads and does not write is counted in a drop
\* counter: at the end of the run total_in = total_keep + the sum of the drop
\* counters.
C10_DropsAccountForEveryRow ==
    m_pc = "done" =>
        m_total_in = m_total_keep + SumOver(m_drop_counters, DOMAIN m_drop_counters)

\* the movies output holds no two rows with the same id
MoviesIdsUnique ==
    \A i, j \in 1..Len(m_out) : m_out[i].id = m_out[j].id => i = j

---------------------------------------------------------------------------
(* clean_credits, clean_links, clean_keywords: the whole file in one frame *)

\* the rows of a raw credits file; read_csv gives the id column as integers
RawCreditRows == [id : {1, 2}, cast : {"", CAST3_SQ}, crew : {"", CREW3, CREW4, DICT1}]

\* to_list: the parsed cell if it is a list, else []
to_list(x) ==
    LET v == parse_json_safe(x) IN IF v.t = "list" THEN v ELSE EmptyList

\* cast and crew parsed, coverage = len(cast) + len(crew)
credits_coverage(df) ==
    [i \in 1..Len(df) |->
        [id |-> df[i].id, cast |-> to_list(df[i].cast), crew |-> to_list(df[i].crew),
         coverage |-> Len(to_list(df[i].cast).v) + Len(to_list(df[i].crew).v)]]

\* sort_values(["id", "coverage"]) with coverage ascending
credits_sort_ascending(df) ==
    sort_values(df, [i \in 1..Len(df) |-> <<df[i].id, df[i].coverage>>])

\* sort_values(["id", "coverage"], ascending=[True, False])
credits_sort(df) ==
    sort_values(df, [i \in 1..Len(df) |-> <<df[i].id, 0 - df[i].coverage>>])

\* drop_duplicates(subset=["id"], keep="first")
credits_dedup(df) == drop_duplicates(df, [i \in 1..Len(df) |-> df[i].id], "first")

\* cast and crew serialized again
credits_dump(df) ==
    [i \in 1..Len(df) |->
        [df[i] EXCEPT !.cast = json_dump_if(@), !.crew = json_dump_if(@)]]

credits_frame(df) == credits_dump(credits_dedup(credits_sort(credits_coverage(df))))

\* the rows of a raw links file
RawLinkRows == [movieId : {"1", "1.5", "2", "x"}, imdbId : {"7", "x"}, tmdbId : {"9", "x"}]

links_numeric(df) ==
    [i \in 1..Len(df) |->
        [movieId |-> to_numeric(df[i].movieId), imdbId |-> to_numeric(df[i].imdbId),
         tmdbId |-> to_numeric(df[i].tmdbId)]]

\* dropna on movieId, imdbId and, unless null tmdbId rows are kept, tmdbId
links_dropna(df, keep_null_tmdb) ==
    Rows(df, {i \in 1..Len(df) :
                 /\ notna(df[i].movieId)
                 /\ notna(df[i].imdbId)
                 /\ keep_null_tmdb \/ notna(df[i].tmdbId)})

\* movieId and imdbId cast to int, tmdbId where it is not null
links_astype(df) ==
    [i \in 1..Len(df) |->
        [movieId |-> astype_int(df[i].movieId), imdbId |-> astype_int(df[i].imdbId),
         tmdbId |-> IF notna(df[i].tmdbId) THEN <<astype_int(df[i].tmdbId)>> ELSE NaN]]

\* drop_duplicates(subset=["movieId"])
links_dedup(df) == drop_duplicates(df, [i \in 1..Len(df) |-> df[i].movieId], "first")

links_frame(df, keep_null_tmdb) ==
    links_dedup(links_astype(links_dropna(links_numeric(df), keep_null_tmdb)))

\* the rows of a raw keywords file
RawKeywordRows == [id : {"1", "1.5", "2", "x"}, keywords : {"", KW_SQ, KW_NONAME}]

\* str.strip()
strip(s) == IF s = " Foo " THEN "Foo" ELSE s

\* str.lower()
lower(s) == IF s = "Foo" THEN "foo" ELSE s

\* the entries with a non-empty name, trimmed and lowercased
RECURSIVE norm_items(_)
norm_items(xs) ==
    IF xs = <<>> THEN <<>>
    ELSE (IF Head(xs).name # "" /\ strip(Head(xs).name) # ""
          THEN <<P(Head(xs).id, lower(strip(Head(xs).name)))>> ELSE <<>>)
         \o norm_items(Tail(xs))

norm_list(xs) ==
    [t |-> "list", v |-> IF xs.t = "list" THEN norm_items(xs.v) ELSE <<>>]

\* id to numeric, rows without id dropped, then drop_duplicates(subset=["id"]) on
\* the float ids
keywords_dedup(df) ==
    LET num  == [i \in 1..Len(df) |-> [df[i] EXCEPT !.id = to_numeric(@)]]
        kept == Rows(num, {i \in 1..Len(num) : notna(num[i].id)})
    IN drop_duplicates(kept, [i \in 1..Len(kept) |-> kept[i].id], "first")

\* the ids cast to int after the dedup, keywords parsed, normalized, serialized
keywords_frame(df) ==
    LET d == keywords_dedup(df)
    IN [i \in 1..Len(d) |->
           [id |-> astype_int(d[i].id),
            keywords |-> json_dump_if(norm_list(parse_json_safe(d[i].keywords)))]]

\* the items of a parsed keywords cell as rows of the exploded file
RECURSIVE explode_items(_, _)
explode_items(id, xs) ==
    IF xs = <<>> THEN <<>>
    ELSE (IF Head(xs).name # "" /\ lower(strip(Head(xs).name)) # ""
          THEN <<[movie_id |-> id, keyword |-> lower(strip(Head(xs).name))]>> ELSE <<>>)
         \o explode_items(id, Tail(xs))

\* one row per (movie, keyword) of the rows with a numeric id
RECURSIVE explode_rows(_)
explode_rows(df) ==
    IF df = <<>> THEN <<>>
    ELSE LET id    == to_numeric(Head(df).id)
             items == parse_json_safe(Head(df).keywords)
         IN (IF notna(id) /\ items.t = "list"
             THEN explode_items(astype_int(id), items.v) ELSE <<>>)
            \o explode_rows(Tail(df))

\* pd.DataFrame(rows).drop_duplicates()
exploded_frame(df) ==
    LET rows == explode_rows(df)
    IN drop_duplicates(rows, rows, "first")

\* the header lines DataFrame.to_csv(index=False) writes for a frame read from a
\* file: the frame has the columns of the file even when it has no row
frame_header(df) == 1

\* the header lines to_csv writes for pd.DataFrame(rows): a frame made from an
\* empty list of dicts has no column, so no column name is written
rows_header(rows) == IF rows = <<>> THEN 0 ELSE 1

TablesInit ==
    /\ t_done = FALSE
    /\ t_out = <<>>
    /\ t_header = 0
    /\ \/ /\ t_fn = "credits"
          /\ t_keep_null_tmdb = FALSE
          /\ t_in \in SeqsUpTo(RawCreditRows, MaxTableRows)
       \/ /\ t_fn = "links"
          /\ t_keep_null_tmdb \in BOOLEAN
          /\ t_in \in SeqsUpTo(RawLinkRows, MaxTableRows)
       \/ /\ t_fn \in {"keywords", "keywords_exploded"}
          /\ t_keep_null_tmdb = FALSE
          /\ t_in \in SeqsUpTo(RawKeywordRows, MaxTableRows)

TablesIdle ==
    /\ t_fn = "off"
    /\ t_keep_null_tmdb = FALSE
    /\ t_in = <<>>
    /\ t_out = <<>>
    /\ t_done = FALSE
    /\ t_header = 0

clean_credits ==
    /\ t_fn = "credits" /\ ~t_done
    /\ t_out' = credits_frame(t_in)
    /\ t_header' = frame_header(t_out')
    /\ t_done' = TRUE
    /\ UNCHANGED <<t_fn, t_keep_null_tmdb, t_in, not_t>>

clean_links ==
    /\ t_fn = "links" /\ ~t_done
    /\ t_out' = links_frame(t_in, t_keep_null_tmdb)
    /\ t_header' = frame_header(t_out')
    /\ t_done' = TRUE
    /\ UNCHANGED <<t_fn, t_keep_null_tmdb, t_in, not_t>>

clean_keywords ==
    /\ t_fn = "keywords" /\ ~t_done
    /\ t_out' = keywords_frame(t_in)
    /\ t_header' = frame_header(t_out')
    /\ t_done' = TRUE
    /\ UNCHANGED <<t_fn, t_keep_null_tmdb, t_in, not_t>>

explode_keywords ==
    /\ t_fn = "keywords_exploded" /\ ~t_done
    /\ t_out' = exploded_frame(t_in)
    /\ t_header' = rows_header(t_out')
    /\ t_done' = TRUE
    /\ UNCHANGED <<t_fn, t_keep_null_tmdb, t_in, not_t>>

TablesNext == clean_credits \/ clean_links \/ clean_keywords \/ explode_keywords

\* the key column of the function that ran
TableKey(row) == IF t_fn = "links" THEN row.movieId ELSE row.id

\* C2: the outputs of clean_movies, clean_credits, clean_links and clean_keywords
\* hold no two rows with the same key (id, id, movieId, id).
C2_KeysUnique ==
    /\ \A i, j \in 1..Len(m_out) : m_out[i].id = m_out[j].id => i = j
    /\ t_fn \in {"credits", "links", "keywords"} =>
          \A i, j \in 1..Len(t_out) : TableKey(t_out[i]) = TableKey(t_out[j]) => i = j

\* the part of C2 that holds: movies, credits and links
KeysUniqueButKeywords ==
    /\ MoviesIdsUnique
    /\ t_fn \in {"credits", "links"} =>
          \A i, j \in 1..Len(t_out) : TableKey(t_out[i]) = TableKey(t_out[j]) => i = j

\* the input rows of an id, for clean_credits
CreditRowsOf(id) == {i \in 1..Len(t_in) : t_in[i].id = id}

\* the row of an id with the greatest coverage, the earliest in the input on a tie
BestCreditRow(id) ==
    LET cov == credits_coverage(t_in)
        idx == CreditRowsOf(id)
    IN CHOOSE i \in idx : \A j \in idx :
           cov[i].coverage > cov[j].coverage \/ (cov[i].coverage = cov[j].coverage /\ i <= j)

\* C6: clean_credits keeps, for every id of the input, exactly one row: the row of
\* greatest coverage len(cast)+len(crew), the earliest in the input when several
\* rows share the greatest coverage.
C6_CreditsKeepMaxCoverage ==
    (t_fn = "credits" /\ t_done) =>
        \A id \in {t_in[i].id : i \in 1..Len(t_in)} :
            LET outs == {k \in 1..Len(t_out) : t_out[k].id = id}
            IN /\ Cardinality(outs) = 1
               /\ \A k \in outs :
                     t_out[k] = credits_dump(credits_coverage(t_in))[BestCreditRow(id)]

\* several rows of one id, the greatest coverage shared by two of them and not
\* held by the first row of the id
C6_Witness ==
    /\ t_fn = "credits" /\ t_done
    /\ \E id \in {1, 2} :
          LET cov == credits_coverage(t_in)
              idx == CreditRowsOf(id)
              b   == BestCreditRow(id)
          IN /\ \E i \in idx : i < b /\ cov[i].coverage < cov[b].coverage
             /\ \E j \in idx : j > b /\ cov[j].coverage = cov[b].coverage /\ t_in[j] # t_in[b]

---------------------------------------------------------------------------
(* The batch loader: safe_insert_many and insert_movies *)

None == <<>>

\* int(float(value)), None when it raises
parse_int(value) ==
    IF isna(to_numeric(value)) THEN None ELSE <<astype_int(to_numeric(value))>>

\* float("nan"): a float that is no number; every comparison with it is False
FloatNaN == <<0, 0, 1>>

isnan(v) == v = FloatNaN

\* float(value), None when it raises; float accepts the text "nan"
parse_float(value) == IF value = "nan" THEN FloatNaN ELSE to_numeric(value)

\* a < b and a > b on Python floats
py_lt(a, b) == ~isnan(a) /\ ~isnan(b) /\ ~fle(b, a)

py_gt(a, b) == py_lt(b, a)

\* the code of a duplicate-key write error
DUPKEY == 11000

\* the code of a write error that is not a duplicate key (document validation)
OTHER_CODE == 121

\* the _id values of a collection
Ids(coll) == {d._id : d \in coll}

\* insert_many(batch, ordered=True): the store stops at the first write error
RECURSIVE insert_many_ordered(_, _, _, _)
insert_many_ordered(coll, batch, bad, i) ==
    IF i > Len(batch) THEN [coll |-> coll, nInserted |-> 0, writeErrors |-> <<>>]
    ELSE LET doc  == batch[i]
             code == IF i \in bad THEN OTHER_CODE
                     ELSE IF doc._id \in Ids(coll) THEN DUPKEY ELSE 0
             rest == insert_many_ordered(coll \cup {doc}, batch, bad, i + 1)
         IN IF code # 0
            THEN [coll |-> coll, nInserted |-> 0,
                  writeErrors |-> <<[index |-> i, code |-> code]>>]
            ELSE [coll |-> rest.coll, nInserted |-> rest.nInserted + 1,
                  writeErrors |-> rest.writeErrors]

\* collection.insert_many(batch, ordered=False): every document is attempted; the
\* store rejects the documents at the indices in bad for a reason of its own and
\* every document whose _id is already stored, and stores the others
RECURSIVE insert_many(_, _, _, _)
insert_many(coll, batch, bad, i) ==
    IF i > Len(batch) THEN [coll |-> coll, nInserted |-> 0, writeErrors |-> <<>>]
    ELSE LET doc  == batch[i]
             code == IF i \in bad THEN OTHER_CODE
                     ELSE IF doc._id \in Ids(coll) THEN DUPKEY ELSE 0
             rest == insert_many(IF code = 0 THEN coll \cup {doc} ELSE coll, batch, bad, i + 1)
         IN [coll |-> rest.coll,
             nInserted |-> rest.nInserted + (IF code = 0 THEN 1 ELSE 0),
             writeErrors |-> (IF code = 0 THEN <<>> ELSE <<[index |-> i, code |-> code]>>)
                             \o rest.writeErrors]

\* the number of write errors with code 11000
n_dup(writeErrors) ==
    Cardinality({k \in 1..Len(writeErrors) : writeErrors[k].code = DUPKEY})

\* safe_insert_many without the store call: the counters after a batch whose
\* insert_many gave res (a BulkWriteError when res holds write errors)
stats_after(stats, batch, res) ==
    IF res.writeErrors = <<>>
    THEN [stats EXCEPT !.ok = @ + Len(batch)]
    ELSE [stats EXCEPT !.errors = @ + 1,
                       !.ok = @ + res.nInserted,
                       !.dupkey = @ + n_dup(res.writeErrors)]

\* safe_insert_many: nothing for an empty batch; else the collection, the counters
\* and the call made
safe_insert_many(coll, batch, stats, bad) ==
    IF batch = <<>> THEN [coll |-> coll, stats |-> stats, calls |-> <<>>]
    ELSE LET res == insert_many(coll, batch, bad, 1)
         IN [coll |-> res.coll,
             stats |-> stats_after(stats, batch, res),
             calls |-> <<[batch |-> batch, writeErrors |-> res.writeErrors]>>]

NoStats == [ok |-> 0, dupkey |-> 0, errors |-> 0]

\* the rows of a movies file read by csv.DictReader
LoadMovieRows ==
    { [id |-> "1", runtime |-> "90"], [id |-> "2", runtime |-> "90"],
      [id |-> "1.5", runtime |-> "90"], [id |-> "x", runtime |-> "90"],
      [id |-> "-1", runtime |-> "90"], [id |-> "1", runtime |-> "900"],
      [id |-> "1", runtime |-> "-5"], [id |-> "2", runtime |-> "x"],
      [id |-> "2", runtime |-> "nan"], [id |-> "nan", runtime |-> "90"] }

\* the document insert_movies builds from a row, as a one-item tuple, or <<>> for
\* a row it skips
movie_document(row, max_runtime) ==
    LET movie_id == parse_int(row.id)
        runtime  == parse_float(row.runtime)
    IN IF movie_id = None \/ movie_id[1] < 0 THEN <<>>
       ELSE IF runtime # None /\ py_gt(runtime, F(max_runtime, 0)) THEN <<>>
       ELSE <<[_id |-> movie_id[1], id |-> movie_id[1],
               runtime |-> IF runtime # None /\ py_lt(runtime, F(0, 0)) THEN None
                           ELSE runtime]>>

\* a document stored by an earlier run
StoredMovie(i) == [_id |-> i, id |-> i, runtime |-> F(90, 0)]

LoaderInit ==
    /\ l_pc = "rows"
    /\ l_batch_size \in 1..MaxBatchSize
    /\ l_coll \in {{}, {StoredMovie(1)}, {StoredMovie(1), StoredMovie(2)}}
    /\ l_coll0 = l_coll
    /\ l_batch = <<>>
    /\ l_stats = NoStats
    /\ l_total_rows = 0
    /\ l_calls = <<>>
    /\ l_built = <<>>

LoaderIdle ==
    /\ l_pc = "off"
    /\ l_batch_size = 1
    /\ l_coll = {}
    /\ l_coll0 = {}
    /\ l_batch = <<>>
    /\ l_stats = NoStats
    /\ l_total_rows = 0
    /\ l_calls = <<>>
    /\ l_built = <<>>

\* a flush that clears the batch only when the store accepted all of it
flush_keeping_failed(batch, bad) ==
    LET res == safe_insert_many(l_coll, batch, l_stats, bad)
    IN /\ l_coll' = res.coll
       /\ l_stats' = res.stats
       /\ l_calls' = l_calls \o res.calls
       /\ l_batch' = IF res.stats.errors > l_stats.errors THEN batch ELSE <<>>

\* flush(): safe_insert_many on the batch, which is cleared whatever happens
flush(batch, bad) ==
    LET res == safe_insert_many(l_coll, batch, l_stats, bad)
    IN /\ l_coll' = res.coll
       /\ l_stats' = res.stats
       /\ l_calls' = l_calls \o res.calls
       /\ l_batch' = <<>>

\* a batch that is flushed only once it holds more than batch_size documents
batch_full_late(batch) == Len(batch) > l_batch_size

\* len(batch) >= batch_size
batch_full(batch) == Len(batch) >= l_batch_size

\* the body of the loop over the rows: the row is skipped or its document is
\* appended, and a full batch is flushed
insert_movies_row(row, bad) ==
    /\ l_pc = "rows"
    /\ l_total_rows < MaxLoadRows
    /\ l_total_rows' = l_total_rows + 1
    /\ l_built' = l_built \o movie_document(row, MAX_RUNTIME)
    /\ LET batch == l_batch \o movie_document(row, MAX_RUNTIME)
       IN IF movie_document(row, MAX_RUNTIME) # <<>> /\ batch_full(batch)
          THEN bad \subseteq 1..Len(batch) /\ flush(batch, bad)
          ELSE bad = {} /\ l_batch' = batch /\ UNCHANGED <<l_coll, l_stats, l_calls>>
    /\ UNCHANGED <<l_pc, l_batch_size, l_coll0, not_l>>

\* the input is consumed: the finally clause flushes the trailing batch
insert_movies_end(bad) ==
    /\ l_pc = "rows"
    /\ bad \subseteq 1..Len(l_batch)
    /\ flush(l_batch, bad)
    /\ l_pc' = "done"
    /\ UNCHANGED <<l_batch_size, l_coll0, l_total_rows, l_built, not_l>>

\* safe_insert_many whose finally clause does not clear the batch
flush_raise_keeping_batch(batch, stored) ==
    /\ batch # <<>>
    /\ stored \subseteq 1..Len(batch)
    /\ l_coll' = insert_many(l_coll, batch, (1..Len(batch)) \ stored, 1).coll
    /\ l_batch' = batch

\* insert_many raises an error that is not a BulkWriteError: no except clause of
\* safe_insert_many takes it, its finally clause clears the batch and the error
\* goes on; the store may hold any of the documents it had accepted
flush_raise(batch, stored) ==
    /\ batch # <<>>
    /\ stored \subseteq 1..Len(batch)
    /\ l_coll' = insert_many(l_coll, batch, (1..Len(batch)) \ stored, 1).coll
    /\ l_batch' = <<>>

\* the error is raised by the flush of a full batch
insert_movies_row_raise(row, stored) ==
    /\ l_pc = "rows"
    /\ l_total_rows < MaxLoadRows
    /\ l_total_rows' = l_total_rows + 1
    /\ l_built' = l_built \o movie_document(row, MAX_RUNTIME)
    /\ movie_document(row, MAX_RUNTIME) # <<>>
    /\ batch_full(l_batch \o movie_document(row, MAX_RUNTIME))
    /\ flush_raise(l_batch \o movie_document(row, MAX_RUNTIME), stored)
    /\ l_pc' = "raising"
    /\ UNCHANGED <<l_batch_size, l_coll0, l_stats, l_calls, not_l>>

\* the error leaves the loop through the finally clause of insert_movies, which
\* calls flush() on what the batch holds, and then leaves insert_movies
insert_movies_finally(bad) ==
    /\ l_pc = "raising"
    /\ bad \subseteq 1..Len(l_batch)
    /\ flush(l_batch, bad)
    /\ l_pc' = "failed"
    /\ UNCHANGED <<l_batch_size, l_coll0, l_total_rows, l_built, not_l>>

\* the error is raised by the flush of the trailing batch
insert_movies_end_raise(stored) ==
    /\ l_pc = "rows"
    /\ flush_raise(l_batch, stored)
    /\ l_pc' = "failed"
    /\ UNCHANGED <<l_batch_size, l_coll0, l_stats, l_total_rows, l_calls, l_built, not_l>>

LoaderNext ==
    \/ \E row \in LoadMovieRows, bad \in SUBSET (1..MaxBatchSize) :
          insert_movies_row(row, bad)
    \/ \E bad \in SUBSET (1..MaxBatchSize) : insert_movies_end(bad)
    \/ \E row \in LoadMovieRows, stored \in SUBSET (1..MaxBatchSize) :
          insert_movies_row_raise(row, stored)
    \/ \E stored \in SUBSET (1..MaxBatchSize) : insert_movies_end_raise(stored)
    \/ \E bad \in SUBSET (1..MaxBatchSize) : insert_movies_finally(bad)

\* the number of documents submitted to the store by the calls made so far
RECURSIVE Submitted(_)
Submitted(calls) ==
    IF calls = <<>> THEN 0 ELSE Len(Head(calls).batch) + Submitted(Tail(calls))

\* the code the store gave document i of a call, 0 when it stored it
CodeOf(call, i) ==
    IF \E k \in 1..Len(call.writeErrors) : call.writeErrors[k].index = i
    THEN (CHOOSE e \in Range(call.writeErrors) : e.index = i).code
    ELSE 0

\* C3: after any sequence of safe_insert_many calls the counters satisfy
\* ok + dupkey + errors = the number of documents submitted to the store.
C3_AccountingClosure ==
    l_pc \in {"rows", "done"} =>
        l_stats.ok + l_stats.dupkey + l_stats.errors = Submitted(l_calls)

\* C8: 'errors' equals the number of submitted batches in which at least one
\* document failed with an error other than duplicate key; a batch whose only
\* failures are duplicate keys leaves it unchanged.
C8_ErrorsCountNonDupBatches ==
    l_pc \in {"rows", "done"} =>
        l_stats.errors =
            Cardinality({k \in 1..Len(l_calls) :
                \E e \in Range(l_calls[k].writeErrors) : e.code # DUPKEY})

\* C7: a duplicate-key rejection in a batch never prevents the other documents of
\* the batch from being stored: when the inserter has finished, every document it
\* built whose key was absent from the store before the run, and which the store
\* did not itself reject for another reason, has its key in the store.
C7_DupDoesNotBlockBatch ==
    l_pc = "done" =>
        \A k \in 1..Len(l_calls) : \A i \in 1..Len(l_calls[k].batch) :
            (/\ l_calls[k].batch[i]._id \notin Ids(l_coll0)
             /\ CodeOf(l_calls[k], i) # OTHER_CODE)
            => l_calls[k].batch[i]._id \in Ids(l_coll)

\* C7 as first stated, without the exception: every document built whose key was
\* absent from the store before the run has its key in the store after it.
C7_EveryNewKeyStored ==
    l_pc = "done" =>
        \A k \in 1..Len(l_calls) : \A i \in 1..Len(l_calls[k].batch) :
            l_calls[k].batch[i]._id \notin Ids(l_coll0)
            => l_calls[k].batch[i]._id \in Ids(l_coll)

\* a finished run with a batch whose first document was rejected as a duplicate
\* and whose later document, of a key new to the store, was stored
C7_Witness ==
    /\ l_pc = "done"
    /\ \E k \in 1..Len(l_calls) : \E i, j \in 1..Len(l_calls[k].batch) :
          /\ i < j
          /\ CodeOf(l_calls[k], i) = DUPKEY
          /\ CodeOf(l_calls[k], j) = 0
          /\ l_calls[k].batch[j]._id \notin Ids(l_coll0)
          /\ l_calls[k].batch[j] \in l_coll

---------------------------------------------------------------------------
(* The other inserters: the document each builds from a row *)

\* parse_json of insertion.py: [] for None, "", "null", "nan" and unparsable text
parse_json(value) ==
    IF value \in {"", "null", "nan"} THEN EmptyList
    ELSE IF value \in DOMAIN JsonText THEN JsonText[value]
    ELSE IF replace_quotes(value) \in DOMAIN JsonText THEN JsonText[replace_quotes(value)]
    ELSE EmptyList

\* parse_timestamp: epoch seconds for a text of digits, else an ISO text, else
\* None; the value is held in seconds
parse_timestamp(value) ==
    CASE value = "1" -> <<1>>
      [] value = "2" -> <<2>>
      [] value = "1970-01-01 00:00:01" -> <<1>>
      [] value = "1970-01-01 00:00:02" -> <<2>>
      [] OTHER -> None

\* insert_credits: _id = movie_id = int(id)
credit_document(row) ==
    LET movie_id == parse_int(row.id)
    IN IF movie_id = None THEN <<>>
       ELSE <<[_id |-> movie_id[1], movie_id |-> movie_id[1],
               cast |-> parse_json(row.cast), crew |-> parse_json(row.crew)]>>

\* insert_links: _id = movieId
link_document(row, require_tmdb) ==
    LET movie_id == parse_int(row.movieId)
        imdb_id  == parse_int(row.imdbId)
        tmdb_id  == parse_int(row.tmdbId)
    IN IF movie_id = None \/ imdb_id = None THEN <<>>
       ELSE IF require_tmdb /\ tmdb_id = None THEN <<>>
       ELSE <<[_id |-> movie_id[1], movieId |-> movie_id[1], imdbId |-> imdb_id[1],
               tmdbId |-> tmdb_id]>>

\* insert_ratings: the document has no _id
rating_document(row) ==
    LET user_id  == parse_int(row.userId)
        movie_id == parse_int(row.movieId)
        rating   == parse_float(row.rating)
    IN IF user_id = None \/ movie_id = None \/ rating = None THEN <<>>
       ELSE IF ~(~py_lt(rating, F(0, 0)) /\ ~py_gt(rating, F(10, 0)) /\ ~isnan(rating))
            THEN <<>>
       ELSE <<[userId |-> user_id[1], movieId |-> movie_id[1], rating |-> rating,
               timestamp |-> parse_timestamp(row.timestamp)]>>

\* insert_keywords: _id = movie_id = int(id)
keyword_document(row) ==
    LET movie_id == parse_int(row.id)
    IN IF movie_id = None THEN <<>>
       ELSE <<[_id |-> movie_id[1], movie_id |-> movie_id[1],
               keywords |-> parse_json(row.keywords)]>>

\* insert_keywords_exploded: the document has no _id; a row with no movie_id, with
\* movie_id 0 or with an empty keyword is skipped
keyword_exploded_document(row) ==
    LET movie_id == parse_int(row.movie_id)
    IN IF movie_id = None \/ movie_id[1] = 0 \/ row.keyword = "" THEN <<>>
       ELSE <<[movie_id |-> movie_id[1], keyword |-> lower(strip(row.keyword))]>>

\* the document of a row of the file of a collection
document_of(name, row, require_tmdb) ==
    CASE name = "movies" -> movie_document(row, MAX_RUNTIME)
      [] name = "credits" -> credit_document(row)
      [] name = "links" -> link_document(row, require_tmdb)
      [] name = "ratings" -> rating_document(row)
      [] name = "keywords" -> keyword_document(row)
      [] name = "keywords_exploded" -> keyword_exploded_document(row)

\* the documents built from the rows of a file, in order
RECURSIVE documents_of(_, _, _)
documents_of(name, rows, require_tmdb) ==
    IF rows = <<>> THEN <<>>
    ELSE document_of(name, Head(rows), require_tmdb)
         \o documents_of(name, Tail(rows), require_tmdb)

\* the store gives a document without _id a fresh ObjectId: the ids after oid
with_object_ids(docs, oid) ==
    [k \in 1..Len(docs) |->
        [f \in DOMAIN docs[k] \cup {"_id"} |-> IF f = "_id" THEN oid + k ELSE docs[k][f]]]

\* the loop of an inserter over documents the store accepts or rejects as
\* duplicates: a flush for each full batch and one for the trailing batch
RECURSIVE insert_batches(_, _, _, _)
insert_batches(coll, docs, batch_size, stats) ==
    IF docs = <<>> THEN [coll |-> coll, stats |-> stats]
    ELSE LET n   == IF Len(docs) < batch_size THEN Len(docs) ELSE batch_size
             res == safe_insert_many(coll, SubSeq(docs, 1, n), stats, {})
         IN insert_batches(res.coll, SubSeq(docs, n + 1, Len(docs)), batch_size, res.stats)

---------------------------------------------------------------------------
(* insertion.main: validation, reset, the six inserters, the indexes *)

\* the collections in the order main loads them
Collections == <<"movies", "credits", "links", "ratings", "keywords", "keywords_exploded">>

\* the files assert_csv_exists checks
Validated == {"movies", "credits", "links", "ratings"}

\* the collections --reset drops
ResetDropped == {"movies", "credits", "links", "ratings"}

\* the batch size of insert_keywords and insert_keywords_exploded
KEYWORDS_BATCH == 5000

\* the rows of the normalized files
FileRows(name, variant) ==
    CASE name = "movies" ->
           IF variant = 1
           THEN <<[id |-> "1", runtime |-> "90"], [id |-> "2", runtime |-> "90"]>>
           ELSE <<[id |-> "1", runtime |-> "90"], [id |-> "1.5", runtime |-> "90"]>>
      [] name = "credits" ->
           <<[id |-> "1", cast |-> "[]", crew |-> CREW3],
             [id |-> "2", cast |-> "[]", crew |-> CREW4]>>
      [] name = "links" ->
           <<[movieId |-> "1", imdbId |-> "7", tmdbId |-> "9"],
             [movieId |-> "2", imdbId |-> "7", tmdbId |-> ""]>>
      [] name = "ratings" ->
           <<[userId |-> "1", movieId |-> "10", rating |-> "5",
              timestamp |-> "1970-01-01 00:00:01"],
             [userId |-> "1", movieId |-> "20", rating |-> "3",
              timestamp |-> "1970-01-01 00:00:02"]>>
      [] name = "keywords" ->
           <<[id |-> "1", keywords |-> "[{\"id\": 1, \"name\": \"foo\"}]"],
             [id |-> "2", keywords |-> "[]"]>>
      [] name = "keywords_exploded" ->
           <<[movie_id |-> "1", keyword |-> "foo"], [movie_id |-> "0", keyword |-> "foo"]>>

\* a file is there with its columns ("ok"), not there ("absent"), or there without
\* the columns the loader reads ("no_column"); csv.DictReader then gives None for
\* them and every row is skipped
FileStates ==
    [Range(Collections) ->
        {[status |-> s, variant |-> 1] : s \in {"ok", "absent", "no_column"}}
        \cup {[status |-> "ok", variant |-> 2]}]

\* the documents an inserter builds from its file
FileDocuments(name, file, require_tmdb) ==
    IF file.status = "no_column" THEN <<>>
    ELSE documents_of(name, FileRows(name, file.variant), require_tmdb)

NoReport == [c \in Range(Collections) |-> NoStats]

\* an index declaration: collection, name, keys (field and kind), uniqueness
Index(coll, name, keys, unique) ==
    [coll |-> coll, name |-> name, keys |-> keys, unique |-> unique]

\* the indexes ensure_indexes declares, in its order
DeclaredIndexes ==
    << Index("movies", "id_uq", << <<"id", "asc">> >>, TRUE),
       Index("movies", "title_idx", << <<"title", "asc">> >>, FALSE),
       Index("movies", "release_date_idx", << <<"release_date", "asc">> >>, FALSE),
       Index("movies", "text_idx", << <<"overview", "text">>, <<"tagline", "text">> >>, FALSE),
       Index("keywords", "movie_id_uq", << <<"movie_id", "asc">> >>, TRUE),
       Index("keywords_exploded", "kwexp_movie_idx", << <<"movie_id", "asc">> >>, FALSE),
       Index("keywords_exploded", "kwexp_kw_idx", << <<"keyword", "asc">> >>, FALSE),
       Index("keywords_exploded", "kwexp_text_idx", << <<"keyword", "text">> >>, FALSE),
       Index("credits", "movie_id_uq", << <<"movie_id", "asc">> >>, TRUE),
       Index("links", "movieId_uq", << <<"movieId", "asc">> >>, TRUE),
       Index("links", "tmdbId_idx", << <<"tmdbId", "asc">> >>, FALSE),
       Index("ratings", "ratings_movie_idx", << <<"movieId", "asc">> >>, FALSE),
       Index("ratings", "ratings_user_idx", << <<"userId", "asc">> >>, FALSE),
       Index("ratings", "ratings_movie_user_idx",
             << <<"movieId", "asc">>, <<"userId", "asc">> >>, FALSE),
       Index("ratings", "ratings_time_idx", << <<"timestamp", "asc">> >>, FALSE) >>

MainInit ==
    /\ g_pc = "validate"
    /\ g_run = 1
    /\ g_reset \in BOOLEAN
    /\ g_allow_null_tmdb \in BOOLEAN
    /\ g_batch_size \in 1..MaxBatchSize
    /\ g_files \in FileStates
    /\ \A c \in Range(Collections) : g_files[c].variant = 1 \/ c = "movies"
    /\ g_db = [c \in Range(Collections) |-> {}]
    /\ g_oid = 0
    /\ g_report = [n \in {1} |-> NoReport]
    /\ g_db1 = g_db
    /\ g_indexes = {}

MainIdle ==
    /\ g_pc = "off"
    /\ g_run = 1
    /\ g_reset = FALSE
    /\ g_allow_null_tmdb = FALSE
    /\ g_batch_size = 1
    /\ g_files = [c \in Range(Collections) |-> [status |-> "ok", variant |-> 1]]
    /\ g_db = [c \in Range(Collections) |-> {}]
    /\ g_oid = 0
    /\ g_report = [n \in {1} |-> NoReport]
    /\ g_db1 = g_db
    /\ g_indexes = {}

\* assert_csv_exists on the four files: FileNotFoundError or ValueError ends the run
main_validate ==
    /\ g_pc = "validate"
    /\ g_pc' = IF \A c \in Validated : g_files[c].status = "ok" THEN "reset" ELSE "aborted"
    /\ UNCHANGED <<g_run, g_reset, g_allow_null_tmdb, g_batch_size, g_files, g_db, g_oid,
                   g_report, g_db1, g_indexes, not_g>>

\* if args.reset: drop movies, credits, links, ratings (and their indexes)
main_reset ==
    /\ g_pc = "reset"
    /\ g_db' = IF g_reset
               THEN [c \in Range(Collections) |-> IF c \in ResetDropped THEN {} ELSE g_db[c]]
               ELSE g_db
    /\ g_indexes' = IF g_reset THEN {ix \in g_indexes : ix.coll \notin ResetDropped}
                    ELSE g_indexes
    /\ g_pc' = "movies"
    /\ UNCHANGED <<g_run, g_reset, g_allow_null_tmdb, g_batch_size, g_files, g_oid,
                   g_report, g_db1, not_g>>

\* what follows the inserter of a collection
AfterInsert(name) ==
    CASE name = "movies" -> "credits"
      [] name = "credits" -> "links"
      [] name = "links" -> "ratings"
      [] name = "ratings" -> "keywords"
      [] name = "keywords" -> "keywords_exploded"
      [] name = "keywords_exploded" -> "indexes"

\* inserters of which only those of movies, links and keywords set _id
has_own_id_but_credits(name) == name \in {"movies", "links", "keywords"}

\* the inserter of the collection builds its documents with an _id of its own
\* (the movie id); the others leave the _id to the store
has_own_id(name) == name \notin {"ratings", "keywords_exploded"}

\* an inserter of main: open() raises when the file is absent; else the documents
\* are built and inserted batch by batch and the counters reported
main_insert(name) ==
    /\ g_pc = name
    /\ IF g_files[name].status = "absent"
       THEN /\ g_pc' = "aborted"
            /\ UNCHANGED <<g_db, g_oid, g_report>>
       ELSE LET built == FileDocuments(name, g_files[name], ~g_allow_null_tmdb)
                docs  == IF has_own_id(name) THEN built
                         ELSE with_object_ids(built, g_oid)
                size  == IF name \in {"keywords", "keywords_exploded"}
                         THEN KEYWORDS_BATCH ELSE g_batch_size
                res   == insert_batches(g_db[name], docs, size, NoStats)
            IN /\ g_db' = [g_db EXCEPT ![name] = res.coll]
               /\ g_oid' = IF has_own_id(name) THEN g_oid ELSE g_oid + Len(built)
               /\ g_report' = [g_report EXCEPT ![g_run][name] = res.stats]
               /\ g_pc' = AfterInsert(name)
    /\ UNCHANGED <<g_run, g_reset, g_allow_null_tmdb, g_batch_size, g_files, g_db1,
                   g_indexes, not_g>>

main_insert_movies == main_insert("movies")

main_insert_credits == main_insert("credits")

main_insert_links == main_insert("links")

main_insert_ratings == main_insert("ratings")

main_insert_keywords == main_insert("keywords")

main_insert_keywords_exploded == main_insert("keywords_exploded")

\* the field a unique index of a collection is on
UniqueField(name) ==
    CASE name = "movies" -> "id"
      [] name = "links" -> "movieId"
      [] OTHER -> "movie_id"

\* a unique index cannot be built on a collection holding two documents with one
\* value of its field
UniqueIndexOk(name) ==
    \A d, e \in g_db[name] : d[UniqueField(name)] = e[UniqueField(name)] => d = e

\* the index is a text index
IsText(ix) == \E k \in 1..Len(ix.keys) : ix.keys[k][2] = "text"

\* a create_index that refuses an index whose name the collection already has
create_index_strict(indexes, ix) ==
    IF \E e \in indexes : e.coll = ix.coll /\ e.name = ix.name
    THEN [indexes |-> indexes, ok |-> FALSE]
    ELSE [indexes |-> indexes \cup {ix}, ok |-> TRUE]

\* collection.create_index(keys, name=..., unique=...): nothing to do when the
\* very index is there; an error when the collection has another index of that
\* name or of those keys, a second text index, or two documents with one value of
\* the field of a unique index; else the index is built
create_index(indexes, ix) ==
    IF ix \in indexes THEN [indexes |-> indexes, ok |-> TRUE]
    ELSE IF \/ \E e \in indexes :
                  /\ e.coll = ix.coll
                  /\ e.name = ix.name \/ e.keys = ix.keys \/ (IsText(e) /\ IsText(ix))
            \/ ix.unique /\ ~UniqueIndexOk(ix.coll)
    THEN [indexes |-> indexes, ok |-> FALSE]
    ELSE [indexes |-> indexes \cup {ix}, ok |-> TRUE]

\* the create_index calls from the i-th on; an error ends them
RECURSIVE create_indexes(_, _)
create_indexes(indexes, i) ==
    IF i > Len(DeclaredIndexes) THEN [indexes |-> indexes, ok |-> TRUE]
    ELSE LET res == create_index(indexes, DeclaredIndexes[i])
         IN IF res.ok THEN create_indexes(res.indexes, i + 1) ELSE res

\* ensure_indexes, then the final counts: the run is over
ensure_indexes ==
    /\ g_pc = "indexes"
    /\ LET res == create_indexes(g_indexes, 1)
       IN /\ g_indexes' = res.indexes
          /\ g_pc' = IF res.ok THEN "done" ELSE "aborted"
    /\ g_db1' = IF g_run = 1 THEN g_db ELSE g_db1
    /\ UNCHANGED <<g_run, g_reset, g_allow_null_tmdb, g_batch_size, g_files, g_db, g_oid,
                   g_report, not_g>>

\* the load phase is run again on the same files and the same store
main_again(reset) ==
    /\ g_pc = "done"
    /\ g_run < MaxRuns
    /\ g_run' = g_run + 1
    /\ g_reset' = reset
    /\ g_report' = [n \in 1..(g_run + 1) |-> IF n <= g_run THEN g_report[n] ELSE NoReport]
    /\ g_pc' = "validate"
    /\ UNCHANGED <<g_allow_null_tmdb, g_batch_size, g_files, g_db, g_oid, g_db1,
                   g_indexes, not_g>>

MainNext ==
    \/ main_validate
    \/ main_reset
    \/ main_insert_movies
    \/ main_insert_credits
    \/ main_insert_links
    \/ main_insert_ratings
    \/ main_insert_keywords
    \/ main_insert_keywords_exploded
    \/ ensure_indexes
    \/ \E reset \in BOOLEAN : main_again(reset)

\* C9: if any normalized file the load phase reads is absent or lacks a required
\* column, the run aborts before any document is inserted into any collection.
C9_AbortBeforeAnyInsert ==
    (g_run = 1 /\ \E c \in Range(Collections) : g_files[c].status # "ok") =>
        \A c \in Range(Collections) : g_db[c] = {}

\* the part of C9 that holds: the four files assert_csv_exists checks
AbortBeforeAnyInsertValidated ==
    (g_run = 1 /\ \E c \in Validated : g_files[c].status # "ok") =>
        /\ \A c \in Range(Collections) : g_db[c] = {}
        /\ g_pc \in {"validate", "aborted"}

\* C4: the load phase run twice on the same files without reset: for every
\* collection the second run accepts zero documents, rejects as duplicates as
\* many as the first run accepted, and the store holds the same documents after
\* the second run as after the first.
C4_RerunIsIdempotent ==
    (g_run = 2 /\ g_pc = "done" /\ ~g_reset) =>
        /\ \A c \in Range(Collections) :
              /\ g_report[2][c].ok = 0
              /\ g_report[2][c].dupkey = g_report[1][c].ok
        /\ g_db = g_db1

\* the part of C4 that holds: the collections whose documents carry their key as
\* _id
RerunIsIdempotentKeyed ==
    (g_run = 2 /\ g_pc = "done" /\ ~g_reset) =>
        \A c \in {"movies", "credits", "links", "keywords"} :
            /\ g_report[2][c].ok = 0
            /\ g_db[c] = g_db1[c]

---------------------------------------------------------------------------
(* A JSON column: apply(parse_json_safe), apply(json_dump_if), the load *)

\* the cells of a list column of a raw file
ListCells == {"", "[]", CAST3_SQ, CREW3, CREW4, KW_SQ, KW_NONAME, APOS_SQ, APOS_DQ}

JsonInit ==
    /\ j_pc = "raw"
    /\ j_cells \in SeqsUpTo(ListCells, MaxCells)
    /\ j_parsed = <<>>
    /\ j_dumped = <<>>
    /\ j_reparsed = <<>>
    /\ j_loaded = <<>>

JsonIdle ==
    /\ j_pc = "off"
    /\ j_cells = <<>>
    /\ j_parsed = <<>>
    /\ j_dumped = <<>>
    /\ j_reparsed = <<>>
    /\ j_loaded = <<>>

\* df[col] = df[col].apply(parse_json_safe)
apply_parse_json_safe ==
    /\ j_pc = "raw"
    /\ j_parsed' = [k \in 1..Len(j_cells) |-> parse_json_safe(j_cells[k])]
    /\ j_pc' = "parsed"
    /\ UNCHANGED <<j_cells, j_dumped, j_reparsed, j_loaded, not_j>>

\* df[col] = df[col].apply(json_dump_if)
apply_json_dump_if ==
    /\ j_pc = "parsed"
    /\ j_dumped' = [k \in 1..Len(j_parsed) |-> json_dump_if(j_parsed[k])]
    /\ j_pc' = "dumped"
    /\ UNCHANGED <<j_cells, j_parsed, j_reparsed, j_loaded, not_j>>

\* the written cells decoded again by parse_json_safe
reparse_json_safe ==
    /\ j_pc = "dumped"
    /\ j_reparsed' = [k \in 1..Len(j_dumped) |-> parse_json_safe(j_dumped[k])]
    /\ j_pc' = "reparsed"
    /\ UNCHANGED <<j_cells, j_parsed, j_dumped, j_loaded, not_j>>

\* the written cells decoded by the loader's parse_json
load_parse_json ==
    /\ j_pc = "reparsed"
    /\ j_loaded' = [k \in 1..Len(j_dumped) |-> parse_json(j_dumped[k])]
    /\ j_pc' = "loaded"
    /\ UNCHANGED <<j_cells, j_parsed, j_dumped, j_reparsed, not_j>>

JsonNext ==
    \/ apply_parse_json_safe
    \/ apply_json_dump_if
    \/ reparse_json_safe
    \/ load_parse_json

\* the double-quoted serialization of the list a single-quoted cell stands for
DoubleQuotedOf ==
    [ s \in {CAST3_SQ, KW_SQ, APOS_SQ} |->
        CASE s = CAST3_SQ -> "[{\"id\": 1, \"name\": \"a\"}, {\"id\": 2, \"name\": \"b\"}, {\"id\": 3, \"name\": \"c\"}]"
          [] s = KW_SQ -> "[{\"id\": 1, \"name\": \" Foo \"}]"
          [] s = APOS_SQ -> APOS_DQ ]

\* the cell is decoded as its double-quoted serialization is
SameAsDoubleQuoted(k) ==
    j_cells[k] \in DOMAIN DoubleQuotedOf =>
        j_parsed[k] = parse_json_safe(DoubleQuotedOf[j_cells[k]])

\* the text written for the cell decodes back to what the cell was decoded to
RoundTrip(k) ==
    /\ j_pc \in {"reparsed", "loaded"} => j_reparsed[k] = j_parsed[k]
    /\ j_pc = "loaded" => j_loaded[k] = j_parsed[k]

\* C20: for a list-of-objects field parse_json_safe gives the same structure for
\* the single-quoted serialization as for the double-quoted one, and json_dump_if
\* of either result gives JSON text that parse_json_safe decodes back to that
\* structure.
C20_QuotesRoundTrip ==
    j_pc \in {"parsed", "dumped", "reparsed", "loaded"} =>
        \A k \in 1..Len(j_cells) : SameAsDoubleQuoted(k) /\ RoundTrip(k)

\* the part of C20 that holds: lists whose strings hold no quote character, and
\* the round trip of every decoded cell
QuotesRoundTripNoApostrophe ==
    j_pc \in {"parsed", "dumped", "reparsed", "loaded"} =>
        \A k \in 1..Len(j_cells) :
            /\ j_cells[k] # APOS_SQ => SameAsDoubleQuoted(k)
            /\ RoundTrip(k)

---------------------------------------------------------------------------
(* The cleaning phase: ranges, the header, the order of the rows *)

\* lo <= v <= hi for a number v that is there
InRange(v, lo, hi) ==
    /\ lo <= v[1]
    /\ v[1] < hi \/ (v[1] = hi /\ v[2] = 0)

\* C11: every movie row written has vote_average within [0,10] or absent and
\* runtime within [0, MAX_RUNTIME] or absent; every rating row written has rating
\* within [0,10].
C11_RangeInvariants ==
    /\ \A i \in 1..Len(m_out) :
          /\ m_out[i].vote_average = NaN \/ InRange(m_out[i].vote_average, 0, 10)
          /\ m_out[i].runtime = NaN \/ InRange(m_out[i].runtime, 0, MAX_RUNTIME)
    /\ \A i \in 1..Len(r_out) :
          r_out[i].rating # NaN /\ InRange(r_out[i].rating, 0, 10)

\* clean_movies has finished, it read a row with vote_average 11 and a row with
\* runtime 900, and it wrote a row
C11_Witness ==
    /\ m_pc = "done"
    /\ \E i \in 1..Len(m_read) : m_read[i].vote_average = "11"
    /\ \E i \in 1..Len(m_read) : m_read[i].runtime = "900"
    /\ Len(m_out) >= 1

\* s is the beginning of t
IsPrefix(s, t) == Len(s) <= Len(t) /\ SubSeq(t, 1, Len(s)) = s

\* what a step does to an output file, given the first_chunk flag before and
\* after it
WriteStepOk(first_before, first_after, file_before, file_after) ==
    /\ ~first_after => file_after.header = 1
    /\ ~first_before => /\ file_after.header = file_before.header
                        /\ IsPrefix(file_before.rows, file_after.rows)

\* C12: in clean_movies and clean_ratings the output gets its header exactly
\* once, with the first chunk even when no row of it survives; every later chunk
\* only appends rows: it never rewrites the header and never removes a row an
\* earlier chunk wrote.
C12_HeaderOnceThenAppend ==
    [][ /\ WriteStepOk(m_first_chunk, m_first_chunk', m_file, m_file')
        /\ WriteStepOk(r_first_chunk, r_first_chunk', r_file, r_file') ]_vars

\* clean_ratings has read a first full chunk of which no row survived and then a
\* chunk of which a row was written under the header
C12_Witness ==
    /\ r_pc = "done"
    /\ Len(r_read) > CHUNK_SIZE
    /\ \A i \in 1..CHUNK_SIZE : ~rating_row_valid(r_read[i])
    /\ r_file.header = 1
    /\ Len(r_out) >= 1

\* the rows a step appended to the input read or to an output
Appended(before, after) == SubSeq(after, Len(before) + 1, Len(after))

\* the rows a step wrote to an output file
Written(first_before, file_before, file_after) ==
    IF first_before THEN file_after.rows ELSE Appended(file_before.rows, file_after.rows)

\* w can be had from c by removing rows of c
RECURSIVE IsSubsequence(_, _)
IsSubsequence(w, c) ==
    IF w = <<>> THEN TRUE
    ELSE IF c = <<>> THEN FALSE
    ELSE IF Head(w) = Head(c) THEN IsSubsequence(Tail(w), Tail(c))
    ELSE IsSubsequence(w, Tail(c))

\* the rows of a movies chunk as each is written when it is alone in its file,
\* in the order of the chunk
RECURSIVE MoviesTyped(_, _)
MoviesTyped(chunk, min_votes) ==
    IF chunk = <<>> THEN <<>>
    ELSE movies_chunk(<<Head(chunk)>>, {}, min_votes).rows
         \o MoviesTyped(Tail(chunk), min_votes)

\* the rows of each chunk are written in the order they have in the chunk
MoviesOrderKept ==
    IsSubsequence(Written(m_first_chunk, m_file, m_file'),
                  MoviesTyped(Appended(m_read, m_read'), m_min_votes))

RatingsOrderKept ==
    IsSubsequence(Written(r_first_chunk, r_file, r_file'),
                  ratings_normalize(Appended(r_read, r_read')))

\* C13: in every chunk written by clean_movies and by clean_ratings (for each
\* retention policy) the surviving rows appear in the output in the relative
\* order they have in the input chunk.
C13_ChunkOrderKept == [][MoviesOrderKept /\ RatingsOrderKept]_vars

\* the part of C13 that holds: clean_movies, and clean_ratings with policy 'all'
ChunkOrderKeptUnsorted == [][MoviesOrderKept /\ (r_keep = "all" => RatingsOrderKept)]_vars

\* C14: in clean_movies, after every chunk the running key set seen_ids equals
\* the set of ids written to the output so far.
C14_SeenIdsAreWrittenIds ==
    m_seen_ids = {m_out[i].id : i \in 1..Len(m_out)}

\* the part of C14 that holds: every id written is in seen_ids
WrittenIdsAreSeen ==
    {m_out[i].id : i \in 1..Len(m_out)} \subseteq m_seen_ids

\* the indices of the input rows read so far with numeric userId and movieId,
\* rating in [0,10] and a parsable timestamp
ValidRatingRows == {i \in 1..Len(r_read) : rating_row_valid(r_read[i])}

\* the k-th of a set of indices
KthOf(idx, k) == CHOOSE i \in idx : Cardinality({j \in idx : j <= i}) = k

\* C17: with retention policy 'all' clean_ratings performs no deduplication:
\* every input row with numeric userId and movieId, rating in [0,10] and a
\* parsable timestamp is written, so several rows of one (userId, movieId) pair
\* all survive, within a chunk and across chunks.
C17_AllKeepsEveryValidRow ==
    r_keep = "all" =>
        /\ Len(r_out) = Cardinality(ValidRatingRows)
        /\ \A k \in 1..Len(r_out) :
              r_out[k] = rating_row_typed(r_read[KthOf(ValidRatingRows, k)])

\* under 'all', three rows of one pair, two of them in the first chunk and one in
\* the next, are all in the output
C17_Witness ==
    /\ r_keep = "all"
    /\ r_pc = "done"
    /\ Len(r_read) > CHUNK_SIZE
    /\ Len(r_out) = Len(r_read)
    /\ \A i \in 1..Len(r_out) : pair_key(r_out[i]) = pair_key(r_out[1])

\* the pairs with at least one valid row among the rows read so far
ValidPairs == {pair_key(rating_row_typed(r_read[i])) : i \in ValidRatingRows}

\* the greatest timestamp among the valid rows of a pair read so far
GreatestTs(key) ==
    LET ts == {rating_row_typed(r_read[i]).timestamp : i \in ValidRowsOf(key)}
    IN CHOOSE x \in ts : \A y \in ts : y <= x

\* C21: with retention policy 'last', after every chunk latest_ts holds, for each
\* (userId, movieId) pair seen so far, the greatest timestamp among the valid rows
\* of that pair processed so far.
C21_LatestTsIsGreatest ==
    r_keep = "last" =>
        \A key \in ValidPairs :
            key \in DOMAIN r_latest_ts /\ r_latest_ts[key] = GreatestTs(key)

\* the part of C21 that holds: the pairs with a valid row at or after the epoch
LatestTsIsGreatestFromEpoch ==
    r_keep = "last" =>
        \A key \in ValidPairs :
            GreatestTs(key) >= 0 =>
                key \in DOMAIN r_latest_ts /\ r_latest_ts[key] = GreatestTs(key)

\* C27: under retention policies 'first' and 'last' clean_ratings never
\* eliminates a pair: every (userId, movieId) pair with at least one valid input
\* row, timestamps before the epoch included, has a row in the output.
C27_NoPairEliminated ==
    r_keep \in {"first", "last"} =>
        \A key \in ValidPairs : \E i \in 1..Len(r_out) : pair_key(r_out[i]) = key

\* the part of C27 that holds: policy 'first', and under 'last' the pairs with a
\* valid row at or after the epoch
NoPairEliminatedFromEpoch ==
    r_keep \in {"first", "last"} =>
        \A key \in ValidPairs :
            (r_keep = "first" \/ GreatestTs(key) >= 0) =>
                \E i \in 1..Len(r_out) : pair_key(r_out[i]) = key

\* the row has vote_count < min_votes or vote_average == 0
LowSignal(row, min_votes) ==
    \/ row.vote_count # NaN /\ (row.vote_count[1] < min_votes)
    \/ row.vote_average = F(0, 0)

\* C25: for every min_votes >= 0, no row in the output of clean_movies has
\* vote_count < min_votes or vote_average == 0.
C25_NoLowSignalRow ==
    \A i \in 1..Len(m_out) : ~LowSignal(m_out[i], m_min_votes)

\* the part of C25 that holds: with min_votes > 0 no row written has vote_count <
\* min_votes or absent, or vote_average == 0 or absent; with min_votes = 0 the
\* vote filter is not applied and drops no row.
NoLowSignalRowAboveZero ==
    /\ m_min_votes > 0 =>
          \A i \in 1..Len(m_out) :
              /\ ~LowSignal(m_out[i], m_min_votes)
              /\ m_out[i].vote_count # NaN /\ m_out[i].vote_average # NaN
    /\ m_min_votes = 0 => m_drop_counters.movies_low_votes = 0

---------------------------------------------------------------------------
(* The load phase: what is submitted, reset, indexes *)

\* the documents of the calls made so far, in the order they were submitted
RECURSIVE SubmittedDocs(_)
SubmittedDocs(calls) ==
    IF calls = <<>> THEN <<>> ELSE Head(calls).batch \o SubmittedDocs(Tail(calls))

\* C15: each document an inserter builds is submitted to the store exactly once
\* per run: what was submitted followed by what is buffered is what was built, a
\* document of a failed batch included, and after the input is consumed the
\* trailing batch has been flushed and the buffer is empty.
C15_SubmittedExactlyOnce ==
    l_pc \in {"rows", "done"} =>
        /\ SubmittedDocs(l_calls) \o l_batch = l_built
        /\ l_pc = "done" => l_batch = <<>>

\* a finished run whose first batch failed in part and whose trailing batch was
\* a partial one
C15_Witness ==
    /\ l_pc = "done"
    /\ Len(l_calls) >= 2
    /\ l_calls[1].writeErrors # <<>>
    /\ Len(l_calls[Len(l_calls)].batch) < l_batch_size
    /\ SubmittedDocs(l_calls) = l_built

\* loading the rows of a normalized file into an empty collection
LoadOf(name, rows) == insert_batches({}, documents_of(name, rows, TRUE), 1, NoStats)

\* a file that holds its header and nothing else, and whose load inserts nothing
HeaderOnlyAndNothingLoaded(name, header, rows) ==
    /\ header = 1
    /\ rows = <<>>
    /\ LoadOf(name, rows) = [coll |-> {}, stats |-> NoStats]

\* C16: an input file holding only a header makes the cleaning step write an
\* output holding only a header, and loading that output inserts zero documents
\* (ok = 0, dupkey = 0, errors = 0, store unchanged).
C16_HeaderOnlyInput ==
    /\ (m_pc = "done" /\ m_read = <<>>) =>
          HeaderOnlyAndNothingLoaded("movies", m_file.header, m_file.rows)
    /\ (r_pc = "done" /\ r_read = <<>>) =>
          HeaderOnlyAndNothingLoaded("ratings", r_file.header, r_file.rows)
    /\ (t_done /\ t_in = <<>>) => HeaderOnlyAndNothingLoaded(t_fn, t_header, t_out)

\* the part of C16 that holds: every cleaning function but explode_keywords
HeaderOnlyInputButExploded ==
    /\ (m_pc = "done" /\ m_read = <<>>) =>
          HeaderOnlyAndNothingLoaded("movies", m_file.header, m_file.rows)
    /\ (r_pc = "done" /\ r_read = <<>>) =>
          HeaderOnlyAndNothingLoaded("ratings", r_file.header, r_file.rows)
    /\ (t_done /\ t_in = <<>> /\ t_fn # "keywords_exploded") =>
          HeaderOnlyAndNothingLoaded(t_fn, t_header, t_out)

\* the run is about to submit the first batch of the inserter of a collection
AboutToInsert(c) ==
    /\ g_pc = c
    /\ g_files[c].status # "absent"
    /\ FileDocuments(c, g_files[c], ~g_allow_null_tmdb) # <<>>

\* C18: when the load phase is run with reset requested, every collection it
\* inserts into (movies, credits, links, ratings, keywords, keywords_exploded) is
\* empty at the moment its first batch is submitted.
C18_ResetEmptiesEveryCollection ==
    g_reset => \A c \in Range(Collections) : AboutToInsert(c) => g_db[c] = {}

\* the part of C18 that holds: the four collections the reset drops
ResetEmptiesDropped ==
    g_reset => \A c \in ResetDropped : AboutToInsert(c) => g_db[c] = {}

\* C19: ensure_indexes is idempotent: run against a store on which it already
\* ran, it raises no error and leaves the set of declared indexes (names, keys,
\* uniqueness) identical to the set after the first run.
C19_EnsureIndexesIdempotent ==
    [][ g_pc = "indexes" =>
          /\ g_pc' = "done"
          /\ g_indexes' = Range(DeclaredIndexes)
          /\ g_indexes = Range(DeclaredIndexes) => g_indexes' = g_indexes ]_vars

\* a second run without reset has finished on the store the first run indexed
C19_Witness ==
    /\ g_run = 2
    /\ ~g_reset
    /\ g_pc = "done"
    /\ g_indexes = Range(DeclaredIndexes)
    /\ Cardinality(g_indexes) = Len(DeclaredIndexes)

\* rows of a ratings file that never went through the cleaning phase
LoadRatingRows ==
    [userId : {"1"}, movieId : {"10"}, rating : {"5", "11", "-1", "nan", "x"},
     timestamp : {"1"}]

\* the id of the document is a non-negative integer and its runtime is None or
\* within [0, MAX_RUNTIME]
MovieDocumentOk(doc) ==
    /\ doc.id \in Nat
    /\ doc.runtime = None \/ (~isnan(doc.runtime) /\ InRange(doc.runtime, 0, MAX_RUNTIME))

\* every document built from a ratings row has rating within [0,10]
RatingDocumentsOk ==
    \A row \in LoadRatingRows :
        \A k \in 1..Len(rating_document(row)) :
            /\ ~isnan(rating_document(row)[k].rating)
            /\ InRange(rating_document(row)[k].rating, 0, 10)

\* C22: every document insert_movies submits has a non-negative integer id and a
\* runtime that is None or within [0, max_runtime], for any input rows; every
\* document insert_ratings submits has rating within [0,10].
C22_LoadTimeChecks ==
    /\ \A k \in 1..Len(l_calls) : \A i \in 1..Len(l_calls[k].batch) :
          MovieDocumentOk(l_calls[k].batch[i])
    /\ RatingDocumentsOk

\* the part of C22 that holds: the ids, the ratings, and every runtime but NaN
LoadTimeChecksButNaN ==
    /\ \A k \in 1..Len(l_calls) : \A i \in 1..Len(l_calls[k].batch) :
          LET doc == l_calls[k].batch[i]
          IN doc.id \in Nat /\ (isnan(doc.runtime) \/ MovieDocumentOk(doc))
    /\ RatingDocumentsOk

\* a submission has raised an error that is not a BulkWriteError
Raised == l_pc \in {"raising", "failed"}

\* C23: when a batch submission fails with an error that is not a bulk-write
\* error, the inserter submits no further batch and ends with that error, and
\* the documents of the failed batch are not counted as ok or dupkey.
C23_UnrecoverableErrorStops ==
    [][/\ Raised' => (l_calls' = l_calls /\ l_stats' = l_stats)
       /\ Raised => (l_pc' = "failed" /\ l_coll' = l_coll)]_vars

\* an error raised after an earlier batch was submitted, the store having kept a
\* document of the failed batch
C23_Witness ==
    /\ l_pc = "failed"
    /\ l_calls # <<>>
    /\ Submitted(l_calls) = l_stats.ok + l_stats.dupkey
    /\ \E d \in l_coll : d \notin l_coll0 /\ \A k \in 1..Len(l_calls) :
          \A i \in 1..Len(l_calls[k].batch) : l_calls[k].batch[i] # d

\* C24: every batch the inserter submits holds between 1 and batch_size
\* documents, and every submitted batch but the last holds exactly batch_size.
C24_BatchSizes ==
    \A k \in 1..Len(l_calls) :
        /\ Len(l_calls[k].batch) \in 1..l_batch_size
        /\ k < Len(l_calls) => Len(l_calls[k].batch) = l_batch_size

\* a full batch followed by a shorter trailing batch
C24_Witness ==
    /\ l_pc = "done"
    /\ l_batch_size = MaxBatchSize
    /\ Len(l_calls) = 2
    /\ Len(l_calls[1].batch) = l_batch_size
    /\ Len(l_calls[2].batch) < l_batch_size

\* the collections ensure_indexes declares a unique index for
UniqueCollections == {"movies", "keywords", "credits", "links"}

\* C28: whenever ensure_indexes runs, no collection with a declared unique index
\* holds two documents with one value of the indexed field, each document having
\* _id equal to that field, and no unique-index declaration is rejected.
C28_UniqueIndexNeverRejected ==
    g_pc = "indexes" =>
        /\ \A name \in UniqueCollections :
              /\ \A d \in g_db[name] : d._id = d[UniqueField(name)]
              /\ \A d, e \in g_db[name] :
                    d[UniqueField(name)] = e[UniqueField(name)] => d = e
        /\ create_indexes(g_indexes, 1).ok

\* ensure_indexes is about to run at the end of a second run without reset, in
\* which the store rejected the credits loaded again as duplicates
C28_Witness ==
    /\ g_pc = "indexes"
    /\ g_run = 2 /\ ~g_reset
    /\ g_report[2]["credits"].dupkey = 2
    /\ Cardinality(g_db["credits"]) = 2
    /\ Cardinality(g_db["movies"]) >= 1

---------------------------------------------------------------------------
(* clean_movies, clean_ratings: two calls in one process on one input file *)

\* rows of the movies file read by both calls
RerunMovieRows ==
    { GoodMovie("1"), GoodMovie("2"), [GoodMovie("1") EXCEPT !.vote_average = "0"],
      [GoodMovie("2") EXCEPT !.title = ""] }

\* rows of the ratings file read by both calls
RerunRatingRows ==
    [userId : {"1"}, movieId : {"10"}, rating : {"5"}, timestamp : {"-1", "1", "2"}]
    \cup { [userId |-> "1", movieId |-> "20", rating |-> "3", timestamp |-> "1"],
           [userId |-> "1", movieId |-> "10", rating |-> "11", timestamp |-> "1"] }

\* dedup state that lives in the module and is kept from one call to the next
locals_kept(prev) == [prev EXCEPT !.first_chunk = TRUE]

\* the first statements of clean_movies and of clean_ratings: first_chunk = True,
\* seen_ids = set(), latest_ts = defaultdict(int), whatever an earlier call left
locals_at_entry(prev) == [seen_ids |-> {}, latest_ts |-> <<>>, first_chunk |-> TRUE]

TwiceInit ==
    /\ p_pc = "read"
    /\ \/ /\ p_fn = "movies"
          /\ p_keep = "all"
          /\ p_min_votes \in {0, 5}
          /\ p_input \in SeqsUpTo(RerunMovieRows, MaxRerunRows)
       \/ /\ p_fn = "ratings"
          /\ p_keep \in {"first", "last", "all"}
          /\ p_min_votes = 0
          /\ p_input \in SeqsUpTo(RerunRatingRows, MaxRerunRows)
    /\ p_run = 1
    /\ p_pos = 0
    /\ p_seen_ids = {}
    /\ p_latest_ts = <<>>
    /\ p_first_chunk = TRUE
    /\ p_file = NoFile
    /\ p_out1 = <<>>

TwiceIdle ==
    /\ p_pc = "off"
    /\ p_fn = "movies"
    /\ p_keep = "all"
    /\ p_min_votes = 0
    /\ p_input = <<>>
    /\ p_run = 1
    /\ p_pos = 0
    /\ p_seen_ids = {}
    /\ p_latest_ts = <<>>
    /\ p_first_chunk = TRUE
    /\ p_file = NoFile
    /\ p_out1 = <<>>

\* the chunk read_csv gives next: the CHUNK_SIZE rows after the rows consumed, or
\* the rows left
next_chunk ==
    SubSeq(p_input, p_pos + 1,
           IF p_pos + CHUNK_SIZE < Len(p_input) THEN p_pos + CHUNK_SIZE ELSE Len(p_input))

\* read_csv has a chunk to give: rows are left, or the file holds only its header
has_chunk == p_pos < Len(p_input) \/ p_first_chunk

\* the body of the loop of clean_movies on the next chunk of the file
twice_movies_chunk ==
    /\ p_pc = "read" /\ p_fn = "movies" /\ has_chunk
    /\ LET res == movies_chunk(next_chunk, p_seen_ids, p_min_votes)
       IN /\ p_seen_ids' = res.seen_ids
          /\ p_file' = to_csv(p_file, res.rows, p_first_chunk)
    /\ p_pos' = p_pos + Len(next_chunk)
    /\ p_first_chunk' = FALSE
    /\ UNCHANGED <<p_pc, p_fn, p_keep, p_min_votes, p_input, p_run, p_latest_ts, p_out1,
                   not_p>>

\* the body of the loop of clean_ratings on the next chunk of the file
twice_ratings_chunk ==
    /\ p_pc = "read" /\ p_fn = "ratings" /\ has_chunk
    /\ LET res == ratings_chunk(next_chunk, p_keep, p_latest_ts)
       IN /\ p_latest_ts' = res.latest_ts
          /\ p_file' = to_csv(p_file, res.rows, p_first_chunk)
    /\ p_pos' = p_pos + Len(next_chunk)
    /\ p_first_chunk' = FALSE
    /\ UNCHANGED <<p_pc, p_fn, p_keep, p_min_votes, p_input, p_run, p_seen_ids, p_out1,
                   not_p>>

\* the loop is over and the call returns; the output file stays on disk
twice_return ==
    /\ p_pc = "read" /\ ~has_chunk
    /\ p_pc' = "returned"
    /\ p_out1' = IF p_run = 1 THEN p_file.rows ELSE p_out1
    /\ UNCHANGED <<p_fn, p_keep, p_min_votes, p_input, p_run, p_pos, p_seen_ids,
                   p_latest_ts, p_first_chunk, p_file, not_p>>

\* the same function is called again with the same arguments
twice_call_again ==
    /\ p_pc = "returned" /\ p_run = 1
    /\ p_run' = 2
    /\ p_pc' = "read"
    /\ p_pos' = 0
    /\ LET locals == locals_at_entry([seen_ids |-> p_seen_ids, latest_ts |-> p_latest_ts,
                                      first_chunk |-> p_first_chunk])
       IN /\ p_seen_ids' = locals.seen_ids
          /\ p_latest_ts' = locals.latest_ts
          /\ p_first_chunk' = locals.first_chunk
    /\ UNCHANGED <<p_fn, p_keep, p_min_votes, p_input, p_file, p_out1, not_p>>

TwiceNext ==
    \/ twice_movies_chunk
    \/ twice_ratings_chunk
    \/ twice_return
    \/ twice_call_again

\* C26: running clean_movies or clean_ratings twice in the same process on the
\* same input gives the same output rows in the second run as in the first.
C26_SecondRunSameOutput ==
    (p_run = 2 /\ p_pc = "returned") => (p_file.rows = p_out1 /\ p_file.header = 1)

\* the second call of clean_movies has returned; the first had read two chunks,
\* dropped a row for an id already seen and written the others
C26_Witness ==
    /\ p_run = 2 /\ p_pc = "returned"
    /\ p_fn = "movies"
    /\ Len(p_input) > CHUNK_SIZE
    /\ p_seen_ids # {}
    /\ Len(p_out1) \in 1..(Len(p_input) - 1)

---------------------------------------------------------------------------
(* Specifications: one per program run *)

\* a run of clean_ratings
InitRatings == RatingsInit /\ MoviesIdle /\ TablesIdle /\ LoaderIdle /\ MainIdle /\ JsonIdle /\ TwiceIdle

SpecRatings == InitRatings /\ [][RatingsNext]_vars

\* a run of clean_movies
InitMovies == MoviesInit /\ RatingsIdle /\ TablesIdle /\ LoaderIdle /\ MainIdle /\ JsonIdle /\ TwiceIdle

SpecMovies == InitMovies /\ [][MoviesNext]_vars

\* one call of clean_credits, clean_links or clean_keywords
InitTables == TablesInit /\ RatingsIdle /\ MoviesIdle /\ LoaderIdle /\ MainIdle /\ JsonIdle /\ TwiceIdle

SpecTables == InitTables /\ [][TablesNext]_vars

\* a run of insert_movies
InitLoader == LoaderInit /\ RatingsIdle /\ MoviesIdle /\ TablesIdle /\ MainIdle /\ JsonIdle /\ TwiceIdle

SpecLoader == InitLoader /\ [][LoaderNext]_vars

\* runs of the load phase
InitMain == MainInit /\ RatingsIdle /\ MoviesIdle /\ TablesIdle /\ LoaderIdle /\ JsonIdle /\ TwiceIdle

SpecMain == InitMain /\ [][MainNext]_vars

\* the cleaning phase on a movies file or on a ratings file
InitClean ==
    \/ MoviesInit /\ RatingsIdle /\ TablesIdle /\ LoaderIdle /\ MainIdle /\ JsonIdle /\ TwiceIdle
    \/ RatingsInit /\ MoviesIdle /\ TablesIdle /\ LoaderIdle /\ MainIdle /\ JsonIdle /\ TwiceIdle

CleanNext ==
    \/ \E chunk \in MovieChunks : clean_movies_chunk(chunk)
    \/ clean_movies_end
    \/ \E chunk \in RatingChunks : clean_ratings_chunk(chunk)
    \/ clean_ratings_end

SpecClean == InitClean /\ [][CleanNext]_vars

\* a JSON column through the cleaning and the load
InitJson ==
    JsonInit /\ RatingsIdle /\ MoviesIdle /\ TablesIdle /\ LoaderIdle /\ MainIdle
             /\ TwiceIdle

SpecJson == InitJson /\ [][JsonNext]_vars

\* clean_movies or clean_ratings called twice in one process
InitTwice ==
    TwiceInit /\ RatingsIdle /\ MoviesIdle /\ TablesIdle /\ LoaderIdle /\ MainIdle
              /\ JsonIdle

SpecTwice == InitTwice /\ [][TwiceNext]_vars

===========================================================================
